---- MODULE Spec2Model ----
(***************************************************************************)
(* Model of the routing toolkit Riv2oo4/Lab3_Redes: the Dijkstra engine    *)
(* (dijkstra_router.py), the link-state database, the flooding cache, the  *)
(* routing controller, the forwarding dispatcher and the two UDP flooding  *)
(* nodes.  Each component has its own specification over the shared        *)
(* variables; a component that a specification does not exercise stays in  *)
(* its constructed (initial) state.                                        *)
(***************************************************************************)
EXTENDS Integers, Sequences, FiniteSets, Bags, TLC

(***************************************************************************)
(* Bounds of the model.                                                    *)
(***************************************************************************)
\* number of Graph.add_edge calls that build the input graph of a run
MaxEdges == 3
\* largest edge weight of the generated graphs (weights are -1, 0 .. MaxW)
MaxW == 2
\* largest sequence number of an advertisement handed to the LSDB
MaxSeq == 1
\* seconds the clock of the LSDB specification runs for
MaxSecs == 1
\* half seconds the clock of the routing specification runs for
MaxHalfSecs == 4
\* max_items of the small flooding cache
MaxItems == 2
\* half entry lifetimes the clock of the flooding cache specification runs for
MaxCacheSteps == 3
\* send calls in the flooding network, and the largest ttl passed to send
MaxSends == 1
MaxTTL == 3
\* seconds during which messages reach node A, and the highest sequence
\* number of the advertisements that reach it
NodeInputSecs == 1
MaxLspSeq == 1
MaxText == 2
MaxLspCalls == 2
\* send calls and foreign writes on the stream adapter
MaxSockSends == 2

(***************************************************************************)
(* Values shared by the components.                                        *)
(***************************************************************************)
\* Python's None (node identifiers are non-empty strings other than this one)
None == "None"

\* math.inf: larger than every finite path weight of the bounded graphs
inf == 1000000

NodeIds == {"A", "B", "C", "D"}

\* the nodes of the generated graphs (the example topology uses all of NodeIds)
GenNodes == {"A", "B", "C"}
FloodSenders == {"A"}

\* str.__lt__ on the node identifiers (used by tuple comparison in the heap)
StrRank == [n \in NodeIds |-> CASE n = "A" -> 1 [] n = "B" -> 2 [] n = "C" -> 3 [] n = "D" -> 4]

\* {} : the empty dict
EmptyMap == [x \in {} |-> 0]

\* d[k] = v on a dict
Put(d, k, v) == [x \in (DOMAIN d) \cup {k} |-> IF x = k THEN v ELSE d[x]]

\* d.setdefault(k, {}) for its effect on d
SetDefault(d, k) == IF k \in DOMAIN d THEN d ELSE Put(d, k, EmptyMap)

\* no operation has been called yet
NoCall == [op |-> "none"]

\* iterations of the periodic timer per second: time.sleep(0.1); one tick of
\* the clock is 0.1 s
TicksPerSec == 10
\* the least cost a hello measures, max(0.1, ...), in ticks
RttFloor == 1

Min(a, b) == IF a <= b THEN a ELSE b
Max(a, b) == IF a >= b THEN a ELSE b

VARIABLES
    \* ---- dijkstra_router.py: Graph and one DijkstraRouter.run call
    adj,        \* Graph.adj : node -> (neighbor -> weight)
    directed,   \* Graph.directed
    nAdd,       \* add_edge calls made so far
    source,     \* argument of run
    dist,       \* local dist of run / DijkstraResult.dist
    prev,       \* local prev of run / DijkstraResult.prev
    pq,         \* the heap, as the set of its (distance, node) tuples
    visited,    \* local visited of run
    dpc,        \* "build" | "run" | "done" (returned) | "error" (ValueError raised)
    \* ---- the clock and the record of the last call, used by the components below
    now,        \* time.time(), in ticks of 1/TicksPerSec seconds since the start
    call,       \* the last operation called and its arguments
    ret,        \* what the last operation returned
    \* ---- parte2/lsr/lsdb.py
    db,         \* LSDB.db : the entries (origin, seq, expires, links) in dict order
    \* ---- parte2/lsr/routing.py: the Routing object of node A
    mode,       \* Routing.mode
    table,      \* Routing.table : destination -> next hop
    costs,      \* Routing.costs_to_neighbors
    spfDeadline,\* Routing._spf_deadline (0 when none is set)
    spfpc,      \* timer thread in maybe_run_spf: "idle" | "compute" (lock released, lines 42-49 pending)
    scheds,     \* the times of the (last two) schedule_spf calls not yet served by a recomputation
    \* ---- parte2/lsr/flooding.py: one FloodingCache
    seen,       \* FloodingCache._seen : the entries (key, exp) in dict order
    cmax,       \* FloodingCache._max
    accepted,   \* key -> the time of the last call that returned True for it
    capHit,     \* an entry has been dropped because the cache exceeded _max
    \* ---- flooding_router.py / parte2/lsr/flooding.py: a network of FloodingNodes
    fvariant,   \* which FloodingNode class every node runs: "simple" or "cached"
    ftopo,      \* Graph.adj of the shared topology: node -> set of neighbours
    fseen,      \* node -> FloodingNode.seen
    fnet,       \* the UDP datagrams sent and not yet received
    fout,       \* the "recv" events printed: (node, number of the send)
    fsends,     \* number of send calls made so far
    \* ---- parte2/run_node.py: the four link-state nodes of the example topology
    ncosts,     \* node -> Routing.costs_to_neighbors
    ndb,        \* node -> LSDB.db
    ntable,     \* node -> Routing.table
    ncache,     \* node -> Forwarding.cache._seen
    wire,       \* the messages handed to the transport and not yet received
    delivered,  \* the "[DATA]" local deliveries printed so far, in order
    dsent,      \* send_data has been called
    \* ---- parte2/run_node.py: the periodic timer thread of node A
    tpc,        \* where the thread is in the body of its loop, or "dead"
    iter,       \* the iteration over LSDB.db in progress: size at its start, position, graph so far
    tHello,     \* t_hello
    tLsp,       \* t_lsp
    lspSeq,     \* Forwarding.lsp_seq
    \* ---- parte2/lsr/messages.py: one envelope through encode and decode
    emsg,       \* the envelope built
    ebytes,     \* encode(emsg), the bytes on the line
    edec,       \* decode(ebytes)
    epc,        \* "idle" | "built" | "encoded" | "decoded"
    \* ---- forwarding.py / parte2/lsr/forwarding.py: one handler call at node A
    wvariant,   \* which Forwarding class the node runs: "simple" or "lsr"
    wpc,        \* "idle" | "ready" | "done"
    sent,       \* the self.send(to, msg) calls of the handler, in order
    printed,    \* the "[DATA]" lines the handler printed
    \* ---- parte2/lsr/forwarding.py send_lsp_all: the two threads that call it
    lpc,        \* thread -> "idle" | "loaded" (lsp_seq read) | "send" (in the loop)
    lreg,       \* thread -> the value of lsp_seq it read
    lidx,       \* thread -> index of the next neighbour of its loop
    linvOf,     \* thread -> the number of its current invocation, by order of start
    linv,       \* invocations started so far
    lsent,      \* the advertisements sent: (invocation, to, seq)
    \* ---- parte2/lsr/adapters/sockets.py: the SocketAdapter of node A and the
    \* ---- adapter of its peer B, at the other end of A's connections
    out_socks,  \* SocketAdapter.out_socks of A: peer -> connection (0 when none)
    conns,      \* the TCP connections made so far to B's listening socket
    spc,        \* thread -> where it is in send: "idle" | "connect" | "get" | "write"
    sarg,       \* thread -> the arguments (peer_id, msg) of its send call
    ssock,      \* thread -> the local s of send, a connection (0 when None)
    nsends,     \* send calls and foreign writes made so far
    written,    \* the (connection, msg) of every sendall that returned, in order
    dispatched, \* the on_message(peer_id, msg) calls of B's adapter, in order
    \* ---- Graph.from_topology of dijkstra_router.py and of the flooding nodes
    descriptor, \* the topology descriptor handed to from_topology
    \* ---- parte2/run_node.py: the flood of link-state advertisements
    nspf,       \* node -> Routing._spf_deadline (0 when none is set)
    nrelay,     \* node -> (origin, seq) pairs it has re-flooded since the origin's entry was last created
    ntx,        \* self.send calls made so far by the handlers and the origin
    \* ---- dijkstra_sockets.py: the DijkstraNode processes
    xpc,        \* node -> "off" | "discover" | "exchange" | "up" | "dead"
    xidx,       \* node -> the i of the loop of discover_neighbors
    xneighbors, \* node -> DijkstraNode.neighbors, the ids in dict order
    xiter,      \* node -> the iteration of exchange_routing_info: size at its start, position
    xinfo,      \* the info messages delivered: (from, to)
    xlog        \* the outcome of every forward_message call: (node, dest, via)

dvars == <<adj, directed, nAdd, source, dist, prev, pq, visited, dpc>>
tvars == <<now, call, ret>>
lvars == <<db>>
rvars == <<mode, table, costs, spfDeadline, spfpc, scheds>>
cvars == <<seen, cmax, accepted, capHit>>
fvars == <<fvariant, ftopo, fseen, fnet, fout, fsends>>
nvars == <<ncosts, ndb, ntable, ncache, wire, delivered, dsent>>
pvars == <<tpc, iter, tHello, tLsp, lspSeq>>
evars == <<emsg, ebytes, edec, epc>>
wvars == <<wvariant, wpc, sent, printed>>
qvars == <<lpc, lreg, lidx, linvOf, linv, lsent>>
svars == <<out_socks, conns, spc, sarg, ssock, nsends, written, dispatched>>
gvars == <<descriptor>>
kvars == <<nspf, nrelay, ntx>>
xvars == <<xpc, xidx, xneighbors, xiter, xinfo, xlog>>

vars == <<dvars, tvars, lvars, rvars, cvars, fvars, nvars, pvars, evars, wvars, qvars, svars, gvars, kvars, xvars>>

\* the variables a component's actions leave alone
notD == <<tvars, lvars, rvars, cvars, fvars, nvars, pvars, evars, wvars, qvars, svars, gvars, kvars, xvars>>
notL == <<dvars, rvars, cvars, fvars, nvars, pvars, evars, wvars, qvars, svars, gvars, kvars, xvars>>
notR == <<dvars, cvars, fvars, nvars, pvars, evars, wvars, qvars, svars, gvars, kvars, xvars>>
notC == <<dvars, lvars, rvars, fvars, nvars, pvars, evars, wvars, qvars, svars, gvars, kvars, xvars>>
notF == <<dvars, lvars, rvars, cvars, nvars, pvars, now, evars, wvars, qvars, svars, gvars, kvars, xvars>>
notN == <<dvars, lvars, rvars, cvars, fvars, pvars, now, evars, wvars, qvars, svars, gvars, kvars, xvars>>
notP == <<dvars, cvars, fvars, nvars, mode, spfpc, scheds, evars, wvars, qvars, svars, gvars, kvars, xvars>>
notE == <<dvars, tvars, lvars, rvars, cvars, fvars, nvars, pvars, wvars, qvars, svars, gvars, kvars, xvars>>
notQ == <<dvars, tvars, lvars, rvars, cvars, fvars, nvars, evars, wvars, svars, gvars, kvars, xvars,
          tpc, iter, tHello, tLsp>>

\* Routing.__init__, lines 10-17
IdleRouting ==
    /\ mode = "lsr" /\ table = EmptyMap /\ costs = EmptyMap
    /\ spfDeadline = 0 /\ spfpc = "idle" /\ scheds = <<>>

\* FloodingCache.__init__ defaults, flooding.py line 230
max_items == 10000
entry_ttl == 60

\* FloodingCache(), lines 230-233
\* periodic() not started
NoIter == [size |-> 0, pos |-> 0, g |-> EmptyMap]
IdlePeriodic ==
    /\ tpc = "top" /\ iter = NoIter /\ tHello = 0 /\ tLsp = 0 /\ lspSeq = 0

\* no envelope built
NoEnvelope == [n |-> 0, t |-> "none", s |-> <<>>, kv |-> <<>>]
IdleCodec ==
    /\ emsg = NoEnvelope /\ ebytes = <<>> /\ edec = NoEnvelope /\ epc = "idle"

\* no thread inside send_lsp_all
IdleLsp ==
    /\ lpc = [t \in {"periodic", "command"} |-> "idle"]
    /\ lreg = [t \in {"periodic", "command"} |-> 0]
    /\ lidx = [t \in {"periodic", "command"} |-> 0]
    /\ linvOf = [t \in {"periodic", "command"} |-> 0]
    /\ linv = 0 /\ lsent = <<>>

\* SocketAdapter.__init__, lines 8-12: no connection, no thread inside send
NoSend == [peer |-> "", msg |-> [n |-> 0, t |-> "none", s |-> <<>>, kv |-> <<>>]]
IdleSock ==
    /\ out_socks = [p \in {"B", "Z"} |-> 0] /\ conns = <<>>
    /\ spc = [t \in {"command", "periodic", "io"} |-> "idle"]
    /\ sarg = [t \in {"command", "periodic", "io"} |-> NoSend]
    /\ ssock = [t \in {"command", "periodic", "io"} |-> 0]
    /\ nsends = 0 /\ written = <<>> /\ dispatched = <<>>

\* no descriptor loaded
IdleTopo == descriptor = [type |-> "none", config |-> <<>>]

\* no advertisement sent
IdleLspNet ==
    /\ nspf = [n \in NodeIds |-> 0] /\ nrelay = [n \in NodeIds |-> {}] /\ ntx = 0

\* no DijkstraNode process started
IdleDisc ==
    /\ xpc = [n \in {"A", "B", "C"} |-> "off"]
    /\ xidx = [n \in {"A", "B", "C"} |-> 0]
    /\ xneighbors = [n \in {"A", "B", "C"} |-> <<>>]
    /\ xiter = [n \in {"A", "B", "C"} |-> [size |-> 0, pos |-> 0]]
    /\ xinfo = {} /\ xlog = <<>>

\* no handler of Forwarding called
IdleFwd ==
    /\ wvariant = "lsr" /\ wpc = "idle" /\ sent = <<>> /\ printed = <<>>

\* the Routing and Forwarding objects of run_node.py, of no node
IdleNet ==
    /\ IdlePeriodic
    /\ ncosts = [n \in NodeIds |-> EmptyMap] /\ ndb = [n \in NodeIds |-> <<>>]
    /\ ntable = [n \in NodeIds |-> EmptyMap] /\ ncache = [n \in NodeIds |-> <<>>]
    /\ wire = {} /\ delivered = <<>> /\ dsent = FALSE

\* FloodingNode.__init__ of no node
IdleFlood ==
    /\ fvariant = "simple" /\ ftopo = [n \in NodeIds |-> {}]
    /\ fseen = [n \in NodeIds |-> {}] /\ fnet = {} /\ fout = {} /\ fsends = 0

IdleCache ==
    /\ seen = <<>> /\ cmax = max_items /\ accepted = EmptyMap /\ capHit = FALSE
    /\ IdleFlood
    /\ IdleNet

(***************************************************************************)
(* dijkstra_router.py                                                      *)
(***************************************************************************)
\* Graph.add_edge(u, v, w) on adjacency a of a graph with flag dir
add_edge(a, dir, u, v, w) ==
    LET a1 == SetDefault(SetDefault(a, u), v)
        a2 == [a1 EXCEPT ![u] = Put(a1[u], v, w)]
    IN  IF dir THEN a2 ELSE [a2 EXCEPT ![v] = Put(a2[v], u, w)]

\* Graph.nodes()
nodes(a) == DOMAIN a

\* Graph.neighbors(u)
neighbors(a, u) == IF u \in DOMAIN a THEN a[u] ELSE EmptyMap

\* tuple comparison (d1, n1) < (d2, n2) of heap entries
TupleLess(e1, e2) ==
    \/ e1[1] < e2[1]
    \/ e1[1] = e2[1] /\ StrRank[e1[2]] < StrRank[e2[2]]

\* a plausible slip: taking the largest entry instead of the smallest
heappop_max(h) == CHOOSE e \in h : \A f \in h : f = e \/ TupleLess(f, e)

\* heapq.heappop(pq): the smallest tuple of the heap
heappop(h) == CHOOSE e \in h : \A f \in h : f = e \/ TupleLess(e, f)

\* the relaxation test "alt < dist[v]" for edge u -> v
Relaxes(a, d, u, v) == d[u] + a[u][v] < d[v]

Weights == {0 - 1} \cup (0 .. MaxW)

\* the topology of the spec's Dijkstra example: A-B(1), A-C(4), B-C(2), B-D(5), C-D(1)
ExampleEdges == << <<"A", "B", 1>>, <<"A", "C", 4>>, <<"B", "C", 2>>,
                   <<"B", "D", 5>>, <<"C", "D", 1>> >>

RECURSIVE AddEdges(_, _, _)
AddEdges(a, dir, es) ==
    IF es = <<>> THEN a
    ELSE AddEdges(add_edge(a, dir, Head(es)[1], Head(es)[2], Head(es)[3]), dir, Tail(es))

InitDijkstra ==
    /\ directed \in BOOLEAN
    /\ \/ adj = EmptyMap /\ nAdd = 0
       \/ adj = AddEdges(EmptyMap, directed, ExampleEdges) /\ nAdd = MaxEdges
    /\ source = None
    /\ dist = EmptyMap
    /\ prev = EmptyMap
    /\ pq = {}
    /\ visited = {}
    /\ dpc = "build"
    /\ now = 0 /\ call = NoCall /\ ret = None
    /\ db = <<>>
    /\ IdleCodec
    /\ IdleFwd
    /\ IdleLsp
    /\ IdleSock
    /\ IdleTopo
    /\ IdleLspNet
    /\ IdleDisc
    /\ IdleRouting
    /\ IdleCache

\* one call g.add_edge(u, v, w) while the graph is being built
AddEdge(u, v, w) ==
    /\ dpc = "build"
    /\ nAdd < MaxEdges
    /\ adj' = add_edge(adj, directed, u, v, w)
    /\ nAdd' = nAdd + 1
    /\ UNCHANGED <<directed, source, dist, prev, pq, visited, dpc>>
    /\ UNCHANGED notD

\* one iteration of "while pq", lines 84-100, on the locals st of run;
\* status becomes "error" when the iteration raises ValueError
Iter(a, st) ==
    LET e == heappop(st.pq)
        d_u == e[1]
        u == e[2]
        nb == neighbors(a, u)
        rest == st.pq \ {e}
        upd == {v \in DOMAIN nb : Relaxes(a, st.dist, u, v)}
    IN  IF u \in st.visited THEN [st EXCEPT !.pq = rest]
        ELSE IF d_u > st.dist[u]
             THEN [st EXCEPT !.pq = rest, !.visited = st.visited \cup {u}]
        ELSE IF \E v \in DOMAIN nb : nb[v] < 0
             THEN [st EXCEPT !.pq = rest, !.visited = st.visited \cup {u}, !.status = "error"]
        ELSE [st EXCEPT
                !.pq = rest \cup {<<st.dist[u] + nb[v], v>> : v \in upd},
                !.visited = st.visited \cup {u},
                !.dist = [v \in DOMAIN st.dist |->
                            IF v \in upd THEN st.dist[u] + nb[v] ELSE st.dist[v]],
                !.prev = [v \in DOMAIN st.prev |-> IF v \in upd THEN u ELSE st.prev[v]]]

\* the locals of run after lines 77-82
RunInit(a, s) ==
    [dist |-> [u \in nodes(a) |-> IF u = s THEN 0 ELSE inf],
     prev |-> [u \in nodes(a) |-> None],
     pq |-> {<<0, s>>},
     visited |-> {},
     status |-> "run"]

\* the whole loop, lines 84-102: status "done" with the result, or "error"
RECURSIVE RunLoop(_, _)
RunLoop(a, st) ==
    IF st.status = "error" THEN st
    ELSE IF st.pq = {} THEN [st EXCEPT !.status = "done"]
    ELSE RunLoop(a, Iter(a, st))

\* DijkstraRouter(graph).run(s) as a function of its arguments
run(a, s) ==
    IF s \notin DOMAIN a
    THEN [dist |-> EmptyMap, prev |-> EmptyMap, pq |-> {}, visited |-> {}, status |-> "error"]
    ELSE RunLoop(a, RunInit(a, s))

\* DijkstraRouter.run(s), lines 74-82: the source check and the initialisation
RunStart(s) ==
    /\ dpc = "build"
    /\ source' = s
    /\ IF s \notin DOMAIN adj
       THEN /\ dpc' = "error"
            /\ UNCHANGED <<dist, prev, pq, visited>>
       ELSE /\ dist' = RunInit(adj, s).dist
            /\ prev' = RunInit(adj, s).prev
            /\ pq' = RunInit(adj, s).pq
            /\ visited' = RunInit(adj, s).visited
            /\ dpc' = "run"
    /\ UNCHANGED <<adj, directed, nAdd>>
    /\ UNCHANGED notD

\* one iteration of the loop of the run in progress
RunIter ==
    /\ dpc = "run"
    /\ pq # {}
    /\ LET st == Iter(adj, [dist |-> dist, prev |-> prev, pq |-> pq,
                            visited |-> visited, status |-> "run"])
       IN  /\ dist' = st.dist
           /\ prev' = st.prev
           /\ pq' = st.pq
           /\ visited' = st.visited
           /\ dpc' = st.status
    /\ UNCHANGED <<adj, directed, nAdd, source>>
    /\ UNCHANGED notD

\* the loop ends and run returns DijkstraResult(dist, prev), line 102
RunReturn ==
    /\ dpc = "run"
    /\ pq = {}
    /\ dpc' = "done"
    /\ UNCHANGED <<adj, directed, nAdd, source, dist, prev, pq, visited>>
    /\ UNCHANGED notD

\* dict.get(k) on prev
PrevGet(p, k) == IF k \in DOMAIN p THEN p[k] ELSE None

\* the outcome of a predecessor walk that never ends
Diverges == "diverges"

\* the loop of next_hop, lines 62-65; a walk of more steps than there are
\* nodes has come back to a node without meeting src and goes on for ever
RECURSIVE walk(_, _, _, _, _)
walk(p, src, curr, parent, fuel) ==
    IF parent = None \/ parent = src
    THEN (IF parent = src THEN curr ELSE None)
    ELSE IF fuel = 0 THEN Diverges
    ELSE walk(p, src, parent, PrevGet(p, parent), fuel - 1)

\* a plausible slip: answering the predecessor of dst instead of walking to src
next_hop_pred(d, p, src, dst) ==
    IF dst \notin DOMAIN d \/ d[dst] = inf THEN None
    ELSE IF src = dst THEN src
    ELSE PrevGet(p, dst)

\* DijkstraResult.next_hop(src, dst) on a result (d, p), lines 53-65
next_hop(d, p, src, dst) ==
    IF dst \notin DOMAIN d \/ d[dst] = inf THEN None
    ELSE IF src = dst THEN src
    ELSE IF PrevGet(p, dst) = None THEN None
    ELSE walk(p, src, dst, PrevGet(p, dst), Cardinality(DOMAIN p))

\* a plausible slip: sorting by destination id alone
ItemLess_byid(d, a, b) == StrRank[a] < StrRank[b]

\* the sort key of line 107, (math.isinf(cost), dst), compared as Python
\* compares tuples: False before True, then the ids as strings
ItemLess(d, a, b) ==
    \/ d[a] # inf /\ d[b] = inf
    \/ (d[a] = inf) = (d[b] = inf) /\ StrRank[a] < StrRank[b]

\* sorted(result.dist.items(), key=...) restricted to the keys S, line 107
RECURSIVE sorted_items(_, _)
sorted_items(d, S) ==
    IF S = {} THEN <<>>
    ELSE LET m == CHOOSE a \in S : \A b \in S \ {a} : ItemLess(d, a, b)
         IN  <<m>> \o sorted_items(d, S \ {m})

\* DijkstraRouter.build_forwarding_table(result, source), lines 104-118,
\* on a result (d, p)
build_forwarding_table(d, p, src) ==
    LET order == sorted_items(d, DOMAIN d)
    IN  [i \in 1..Len(order) |->
            [next_hop |-> IF order[i] = src THEN src ELSE next_hop(d, p, src, order[i]),
             dest |-> order[i],
             cost |-> d[order[i]]]]

\* build_forwarding_table applied to the result run(source) returned
BuildForwardingTable ==
    /\ dpc = "done"
    /\ call.op # "build_forwarding_table"
    /\ ret' = build_forwarding_table(dist, prev, source)
    /\ call' = [op |-> "build_forwarding_table"]
    /\ UNCHANGED <<dvars, now>>
    /\ UNCHANGED <<lvars, rvars, cvars, fvars, nvars, pvars, evars, wvars, qvars>>
    /\ UNCHANGED <<svars, gvars, kvars, xvars>>

NextDijkstra ==
    \/ \E u \in GenNodes, v \in GenNodes, w \in Weights : AddEdge(u, v, w)
    \/ \E s \in NodeIds : RunStart(s)
    \/ RunIter
    \/ RunReturn
    \/ BuildForwardingTable

SpecDijkstra == InitDijkstra /\ [][NextDijkstra]_vars

\* the state of the Dijkstra component when a specification does not use it
IdleDijkstra ==
    /\ adj = EmptyMap /\ directed = FALSE /\ nAdd = 0 /\ source = None
    /\ dist = EmptyMap /\ prev = EmptyMap /\ pq = {} /\ visited = {}
    /\ dpc = "build"

(***************************************************************************)
(* parte2/lsr/constants.py                                                 *)
(***************************************************************************)
LSP_AGE_SEC == 30
SPF_DEBOUNCE_SEC == 1
HELLO_PERIOD_SEC == 2
MAX_TTL == 16
PROTO_DIJKSTRA == "dijkstra"
PROTO_FLOODING == "flooding"
PROTO_LSR == "lsr"
TYPE_HELLO == "hello"
TYPE_INFO == "info"
TYPE_DATA == "message"

(***************************************************************************)
(* parte2/lsr/lsdb.py                                                      *)
(***************************************************************************)
\* the position of origin's entry in the dict, 0 when it has none
DbIndex(d, origin) ==
    IF \E i \in 1 .. Len(d) : d[i].origin = origin
    THEN CHOOSE i \in 1 .. Len(d) : d[i].origin = origin
    ELSE 0

\* self.db.get(origin)
DbGet(d, origin) == IF DbIndex(d, origin) = 0 THEN None ELSE d[DbIndex(d, origin)]

DbOrigins(d) == {d[i].origin : i \in 1 .. Len(d)}

\* a plausible slip: accepting an advertisement whose seq equals the stored one
apply_lsp_geq(d, t, origin, seq, age, links) ==
    LET expires == t + Min(age, LSP_AGE_SEC) * TicksPerSec
        i == DbIndex(d, origin)
        e == [origin |-> origin, seq |-> seq, links |-> links, expires |-> expires]
    IN  IF i = 0 THEN [ret |-> TRUE, db |-> Append(d, e)]
        ELSE IF seq >= d[i].seq THEN [ret |-> TRUE, db |-> [d EXCEPT ![i] = e]]
        ELSE [ret |-> FALSE, db |-> d]

\* LSDB.apply_lsp(origin, seq, age, links) at time t: the new db and the result
apply_lsp(d, t, origin, seq, age, links) ==
    LET expires == t + Min(age, LSP_AGE_SEC) * TicksPerSec
        i == DbIndex(d, origin)
        e == [origin |-> origin, seq |-> seq, links |-> links, expires |-> expires]
    IN  IF i = 0 THEN [ret |-> TRUE, db |-> Append(d, e)]
        ELSE IF seq > d[i].seq THEN [ret |-> TRUE, db |-> [d EXCEPT ![i] = e]]
        ELSE [ret |-> FALSE, db |-> d]

\* a plausible slip: an entry expiring exactly now counts as expired
Expired_leq(e, t) == e.expires <= t

\* the test of line 25: exp < now
Expired(e, t) == e.expires < t
Live(e, t) == ~Expired(e, t)

\* LSDB.sweep() at time t: the new db and the result
sweep(d, t) ==
    LET keep == SelectSeq(d, LAMBDA e : ~Expired(e, t))
    IN  [ret |-> Len(keep) # Len(d), db |-> keep]

\* the arguments the calls of the LSDB specification are drawn from
LsdbOrigins == {"B", "C"}
LsdbSeqs == 0 .. MaxSeq
LsdbAges == {0, LSP_AGE_SEC + 15}
LsdbLinks == {("A" :> 1), ("A" :> 1) @@ ("D" :> 3)}

InitLSDB ==
    /\ IdleDijkstra
    /\ IdleCodec
    /\ IdleFwd
    /\ IdleLsp
    /\ IdleSock
    /\ IdleTopo
    /\ IdleLspNet
    /\ IdleDisc
    /\ now = 0 /\ call = NoCall /\ ret = None
    /\ db = <<>>
    /\ IdleRouting
    /\ IdleCache

\* the transport thread hands an advertisement to LSDB.apply_lsp
ApplyLsp(origin, seq, age, links) ==
    /\ LET r == apply_lsp(db, now, origin, seq, age, links)
       IN  /\ db' = r.db
           /\ ret' = r.ret
    /\ call' = [op |-> "apply_lsp", origin |-> origin, had |-> (origin \in DbOrigins(db))]
    /\ UNCHANGED now
    /\ UNCHANGED notL

\* the timer thread calls LSDB.sweep
Sweep ==
    /\ LET r == sweep(db, now)
       IN  /\ db' = r.db
           /\ ret' = r.ret
    /\ call' = [op |-> "sweep"]
    /\ UNCHANGED now
    /\ UNCHANGED notL

\* one second passes
TickSec ==
    /\ now < MaxSecs * TicksPerSec
    /\ now' = now + TicksPerSec
    /\ call' = [op |-> "tick"]
    /\ UNCHANGED <<ret, db>>
    /\ UNCHANGED notL

NextLSDB ==
    \/ \E o \in LsdbOrigins, s \in LsdbSeqs, a \in LsdbAges, l \in LsdbLinks : ApplyLsp(o, s, a, l)
    \/ Sweep
    \/ TickSec

SpecLSDB == InitLSDB /\ [][NextLSDB]_vars

(***************************************************************************)
(* parte2/lsr/graph.py and LSDB.to_graph                                   *)
(***************************************************************************)
\* a plausible slip: a weight already present is kept
add_link_keep(a, u, v, w) ==
    LET a1 == SetDefault(a, u)
        a2 == [a1 EXCEPT ![u] = IF v \in DOMAIN a1[u] THEN a1[u] ELSE Put(a1[u], v, w)]
        a3 == SetDefault(a2, v)
    IN  [a3 EXCEPT ![v] = IF u \in DOMAIN a3[v] THEN a3[v] ELSE Put(a3[v], u, w)]

\* Graph.add_link(u, v, w)
add_link(a, u, v, w) ==
    LET a1 == SetDefault(a, u)
        a2 == [a1 EXCEPT ![u] = Put(a1[u], v, w)]
        a3 == SetDefault(a2, v)
    IN  [a3 EXCEPT ![v] = Put(a3[v], u, w)]

\* "for n, c in links.items(): g.add_link(u, n, c)" (the pairs (u, n) differ,
\* so the order of the items does not show in the result)
RECURSIVE AddLinks(_, _, _)
AddLinks(a, u, links) ==
    IF DOMAIN links = {} THEN a
    ELSE LET n == CHOOSE x \in DOMAIN links : TRUE
         IN  AddLinks(add_link(a, u, n, links[n]), u,
                      [x \in (DOMAIN links) \ {n} |-> links[x]])

\* LSDB.to_graph(): the origins in dict order, a later origin overwriting
\* the weight an earlier one gave to the same link
RECURSIVE to_graph_from(_, _)
to_graph_from(a, d) ==
    IF d = <<>> THEN a
    ELSE to_graph_from(AddLinks(a, Head(d).origin, Head(d).links), Tail(d))

to_graph(d) == to_graph_from(EmptyMap, d)

(***************************************************************************)
(* parte2/lsr/dijkstra.py (not in the sources): shortest_paths, from the   *)
(* design notes: standard Dijkstra, then the next hop of every node at     *)
(* finite distance by the walk-back.                                       *)
(***************************************************************************)
shortest_paths(g, s) ==
    LET r == run(g, s)
    IN  [dist |-> r.dist,
         prev |-> r.prev,
         status |-> r.status,
         nh |-> [v \in {x \in DOMAIN r.dist : r.dist[x] # inf} |->
                    next_hop(r.dist, r.prev, s, v)]]

(***************************************************************************)
(* parte2/lsr/routing.py                                                   *)
(***************************************************************************)
\* Routing.node_id of the modelled controller
node_id == "A"

Modes == {PROTO_DIJKSTRA, PROTO_FLOODING, PROTO_LSR}

\* Routing.update_neighbor_cost(n, cost): the new table and the result
update_neighbor_cost(c, n, cost) ==
    [ret |-> IF n \in DOMAIN c THEN c[n] # cost ELSE TRUE,
     costs |-> Put(c, n, cost)]

Debounce == SPF_DEBOUNCE_SEC * TicksPerSec

\* a plausible slip: a deadline that is set is kept, not extended
schedule_spf_keep(deadline, t) == IF deadline # 0 THEN deadline ELSE t + Debounce

\* Routing.schedule_spf() at time t: the new deadline
schedule_spf(deadline, t) == t + Debounce

\* the test of maybe_run_spf, line 37
SpfDue(deadline, t) == deadline # 0 /\ t >= deadline

\* lines 42-48 of maybe_run_spf: the table computed from the LSDB and the
\* local links
spf_table(d, c, self) ==
    LET g == AddLinks(to_graph(d), self, c)
        r == shortest_paths(g, self)
    IN  [table |-> [dst \in (DOMAIN r.nh) \ {self} |-> r.nh[dst]],
         status |-> r.status]

\* a plausible slip: the flooding gate is missing
routing_next_hop_nogate(m, t, dst) ==
    IF m \in {PROTO_FLOODING, PROTO_DIJKSTRA, PROTO_LSR} /\ dst \in DOMAIN t THEN t[dst]
    ELSE None

\* Routing.next_hop(dst) on mode m and table t
routing_next_hop(m, t, dst) ==
    IF m = PROTO_FLOODING THEN None
    ELSE IF m = PROTO_DIJKSTRA /\ dst \in DOMAIN t THEN t[dst]
    ELSE IF m = PROTO_LSR /\ dst \in DOMAIN t THEN t[dst]
    ELSE None

\* the advertisements and costs the calls of the routing specification use
RoutingLsps == {[origin |-> "B", links |-> ("A" :> RttFloor) @@ ("D" :> TicksPerSec)]}
RoutingDsts == {"B", "D", "Z"}
RoutingCosts == {1, TicksPerSec}

\* run_node.py lines 53-58 for node A of the example topology: the mode of
\* the command line and the neighbor costs seeded with 1.0
InitRouting ==
    /\ IdleDijkstra
    /\ IdleCodec
    /\ IdleFwd
    /\ IdleLsp
    /\ IdleSock
    /\ IdleTopo
    /\ IdleLspNet
    /\ IdleDisc
    /\ now = 0 /\ call = NoCall /\ ret = None
    /\ db = <<>>
    /\ mode \in Modes
    /\ table = EmptyMap
    /\ costs = ("B" :> TicksPerSec) @@ ("C" :> TicksPerSec)
    /\ spfDeadline = 0 /\ spfpc = "idle" /\ scheds = <<>>
    /\ IdleCache

SetMode(m) ==
    /\ mode' = m
    /\ call' = [op |-> "set_mode"]
    /\ ret' = None
    /\ UNCHANGED <<now, db, table, costs, spfDeadline, spfpc, scheds>>
    /\ UNCHANGED notR

UpdateNeighborCost(n, c) ==
    /\ costs' = update_neighbor_cost(costs, n, c).costs
    /\ ret' = update_neighbor_cost(costs, n, c).ret
    /\ call' = [op |-> "update_neighbor_cost"]
    /\ UNCHANGED <<now, db, mode, table, spfDeadline, spfpc, scheds>>
    /\ UNCHANGED notR

\* an advertisement reaches the controller's LSDB
RoutingApplyLsp(l) ==
    /\ LET r == apply_lsp(db, now, l.origin, 1, LSP_AGE_SEC, l.links)
       IN  db' = r.db /\ ret' = r.ret
    /\ call' = [op |-> "apply_lsp", origin |-> l.origin, had |-> (l.origin \in DbOrigins(db))]
    /\ UNCHANGED <<now, mode, table, costs, spfDeadline, spfpc, scheds>>
    /\ UNCHANGED notR

ScheduleSpf ==
    /\ spfDeadline' = schedule_spf(spfDeadline, now)
    /\ scheds' = IF scheds = <<>> THEN <<now>> ELSE <<scheds[Len(scheds)], now>>
    /\ call' = [op |-> "schedule_spf"]
    /\ ret' = None
    /\ UNCHANGED <<now, db, mode, table, costs, spfpc>>
    /\ UNCHANGED notR

\* maybe_run_spf, lines 36-40: the part under the lock
MaybeRunSpf ==
    /\ spfpc = "idle"
    /\ IF SpfDue(spfDeadline, now)
       THEN /\ spfDeadline' = 0
            /\ spfpc' = "compute"
            /\ scheds' = <<>>
            /\ call' = [op |-> "maybe_run_spf", served |-> scheds, ran |-> TRUE]
       ELSE /\ UNCHANGED <<spfDeadline, spfpc, scheds>>
            /\ call' = [op |-> "maybe_run_spf", served |-> <<>>, ran |-> FALSE]
    /\ ret' = None
    /\ UNCHANGED <<now, db, mode, table, costs>>
    /\ UNCHANGED notR

\* maybe_run_spf, lines 42-49: the recomputation, outside the lock
SpfCompute ==
    /\ spfpc = "compute"
    /\ LET r == spf_table(db, costs, node_id)
       IN  IF r.status = "done"
           THEN table' = r.table /\ spfpc' = "idle"
           ELSE UNCHANGED table /\ spfpc' = "raised"
    /\ call' = [op |-> "spf"]
    /\ ret' = None
    /\ UNCHANGED <<now, db, mode, costs, spfDeadline, scheds>>
    /\ UNCHANGED notR

NextHop(dst) ==
    /\ ret' = routing_next_hop(mode, table, dst)
    /\ call' = [op |-> "next_hop", dst |-> dst]
    /\ UNCHANGED <<now, db, mode, table, costs, spfDeadline, spfpc, scheds>>
    /\ UNCHANGED notR

\* half a second passes
TickHalf ==
    /\ now < MaxHalfSecs * (TicksPerSec \div 2)
    /\ now' = now + (TicksPerSec \div 2)
    /\ call' = [op |-> "tick"]
    /\ UNCHANGED <<ret, db, mode, table, costs, spfDeadline, spfpc, scheds>>
    /\ UNCHANGED notR

NextRouting ==
    \/ \E m \in Modes : SetMode(m)
    \/ \E c \in RoutingCosts : UpdateNeighborCost("B", c)
    \/ \E l \in RoutingLsps : RoutingApplyLsp(l)
    \/ ScheduleSpf
    \/ MaybeRunSpf
    \/ SpfCompute
    \/ \E d \in RoutingDsts : NextHop(d)
    \/ TickHalf

SpecRouting == InitRouting /\ [][NextRouting]_vars

(***************************************************************************)
(* parte2/lsr/flooding.py: FloodingCache                                   *)
(***************************************************************************)
Lifetime == entry_ttl * TicksPerSec

\* the entries that sorted(items, key=exp) puts before entry i: a smaller
\* expiry, or the same expiry and an earlier place in the dict (the sort is stable)
SortRank(c, i) ==
    Cardinality({j \in 1 .. Len(c) :
        c[j].exp < c[i].exp \/ (c[j].exp = c[i].exp /\ j < i)})

RECURSIVE KeepIdx(_, _, _)
KeepIdx(c, i, drop) ==
    IF i > Len(c) THEN <<>>
    ELSE (IF SortRank(c, i) < drop THEN <<>> ELSE <<c[i]>>) \o KeepIdx(c, i + 1, drop)

\* FloodingCache._evict() at time t with cap mx, lines 235-243
evict(c, mx, t) ==
    LET live == SelectSeq(c, LAMBDA e : ~(e.exp < t))
    IN  IF Len(live) > mx THEN KeepIdx(live, 1, Len(live) - mx) ELSE live

\* whether _evict drops an entry for the cap
evict_caps(c, mx, t) == Len(SelectSeq(c, LAMBDA e : ~(e.exp < t))) > mx

CacheKeys(c) == {c[i].key : i \in 1 .. Len(c)}

\* a plausible slip: the key is looked up but never remembered
should_forward_forget(c, mx, t, origin, mid) ==
    IF origin = "" \/ mid = "" THEN [ret |-> FALSE, seen |-> c]
    ELSE LET c1 == evict(c, mx, t)
             key == <<origin, mid>>
         IN  IF key \in CacheKeys(c1) THEN [ret |-> FALSE, seen |-> c1]
             ELSE [ret |-> TRUE, seen |-> c1]

\* FloodingCache.should_forward(origin, mid) at time t, lines 245-253: the
\* new _seen and the result
should_forward(c, mx, t, origin, mid) ==
    IF origin = "" \/ mid = "" THEN [ret |-> FALSE, seen |-> c]
    ELSE LET c1 == evict(c, mx, t)
             key == <<origin, mid>>
         IN  IF key \in CacheKeys(c1) THEN [ret |-> FALSE, seen |-> c1]
             ELSE [ret |-> TRUE, seen |-> Append(c1, [exp |-> t + Lifetime, key |-> key])]

CacheOrigins == {"", "A", "B"}
CacheIds == {"", "m1", "m2"}

\* a cache with the default cap, or one built with a small max_items
InitCache ==
    /\ IdleDijkstra
    /\ IdleCodec
    /\ IdleFwd
    /\ IdleLsp
    /\ IdleSock
    /\ IdleTopo
    /\ IdleLspNet
    /\ IdleDisc
    /\ now = 0 /\ call = NoCall /\ ret = None
    /\ db = <<>>
    /\ IdleRouting
    /\ seen = <<>>
    /\ cmax \in {MaxItems, max_items}
    /\ accepted = EmptyMap
    /\ capHit = FALSE
    /\ IdleFlood
    /\ IdleNet

ShouldForward(origin, mid) ==
    /\ LET r == should_forward(seen, cmax, now, origin, mid)
       IN  /\ seen' = r.seen
           /\ ret' = r.ret
           /\ accepted' = IF r.ret THEN Put(accepted, <<origin, mid>>, now) ELSE accepted
    /\ capHit' = (capHit \/ (origin # "" /\ mid # "" /\ evict_caps(seen, cmax, now)))
    /\ call' = [op |-> "should_forward", origin |-> origin, mid |-> mid]
    /\ UNCHANGED <<now, cmax>>
    /\ UNCHANGED notC

\* half an entry lifetime passes
TickCache ==
    /\ now < MaxCacheSteps * (Lifetime \div 2)
    /\ now' = now + (Lifetime \div 2)
    /\ call' = [op |-> "tick"]
    /\ UNCHANGED <<ret, seen, cmax, accepted, capHit>>
    /\ UNCHANGED notC

NextCache ==
    \/ \E o \in CacheOrigins, m \in CacheIds : ShouldForward(o, m)
    \/ TickCache

SpecCache == InitCache /\ [][NextCache]_vars

(***************************************************************************)
(* flooding_router.py and parte2/lsr/flooding.py: FloodingNode             *)
(***************************************************************************)
FloodVariants == {"simple", "cached"}

\* the undirected topologies on NodeIds with at most as many links as the
\* generator's example: Graph.from_topology of a topology file
UndirectedPairs == {e \in SUBSET NodeIds : Cardinality(e) = 2}
TopoOf(edges) == [n \in NodeIds |-> {m \in NodeIds : {n, m} \in edges}]
FloodTopologies ==
    {TopoOf(es) : es \in {x \in SUBSET UndirectedPairs : Cardinality(x) <= Cardinality(NodeIds)}}

\* FloodingNode._msg_key (simple) / key = (origin, id) (cached)
msg_key(variant, m) ==
    IF variant = "simple" THEN <<m.from, m.to, m.payload>> ELSE <<m.from, m.id>>

\* FloodingNode._get_header(headers, "via"): the first via header
get_via(headers) == IF Len(headers) > 0 THEN headers[1] ELSE None

\* FloodingNode._flood(msg, exclude) at node self: one datagram per neighbour
\* other than the excluded one; hops, ttl0, n and snd are bookkeeping of the
\* datagram that the program does not carry
flood(topo, self, m, exclude, n, hops, ttl0) ==
    {[n |-> n, msg |-> m, hops |-> hops, ttl0 |-> ttl0, rcv |-> v, snd |-> self] :
        v \in topo[self] \ {exclude}}

\* a plausible slip: a datagram whose ttl reaches 0 is still relayed
ttl_exhausted_lt(ttl) == ttl < 0

\* the test "if ttl <= 0: return" of both _handle methods
ttl_exhausted(ttl) == ttl <= 0

\* FloodingNode.send(to, payload, ttl) of the variant: the message injected
send_msg(variant, self, to, ttl, n) ==
    IF variant = "simple"
    THEN [type |-> "message", from |-> self, to |-> to, payload |-> "p",
          id |-> None, headers |-> <<>>, ttl |-> ttl]
    ELSE [type |-> "message", from |-> self, to |-> to, payload |-> "p",
          id |-> n, headers |-> <<self>>, ttl |-> Max(1, ttl)]

InitFlood ==
    /\ IdleDijkstra
    /\ IdleCodec
    /\ IdleFwd
    /\ IdleLsp
    /\ IdleSock
    /\ IdleTopo
    /\ IdleLspNet
    /\ IdleDisc
    /\ now = 0 /\ call = NoCall /\ ret = None
    /\ db = <<>>
    /\ IdleRouting
    /\ seen = <<>> /\ cmax = max_items /\ accepted = EmptyMap /\ capHit = FALSE
    /\ fvariant \in FloodVariants
    /\ ftopo \in FloodTopologies
    /\ fseen = [n \in NodeIds |-> {}]
    /\ fnet = {}
    /\ fout = {}
    /\ fsends = 0
    /\ IdleNet

\* node self calls send(to, "p", ttl)
FloodSend(self, to, ttl) ==
    /\ fsends < MaxSends
    /\ fsends' = fsends + 1
    /\ LET m == send_msg(fvariant, self, to, ttl, fsends + 1)
       IN  fnet' = fnet \cup flood(ftopo, self, m, None, fsends + 1, 1, m.ttl)
    /\ call' = [op |-> "send", node |-> self]
    /\ UNCHANGED <<ret, fvariant, ftopo, fseen, fout>>
    /\ UNCHANGED notF

\* _serve receives datagram d and _handle processes it
FloodHandle(d) ==
    LET self == d.rcv
        m == d.msg
        key == msg_key(fvariant, m)
        dup == key \in fseen[self]
        local == IF fvariant = "simple"
                 THEN m.to = self \/ m.type = "echo"
                 ELSE m.to = self \/ m.to = "*" \/ m.type = "hello"
        stop == fvariant = "simple" /\ m.type = "echo"
        ttl == m.ttl - 1
        relay == ~dup /\ ~stop /\ ~ttl_exhausted(ttl)
        fwd == IF fvariant = "simple"
               THEN [m EXCEPT !.ttl = ttl]
               ELSE [m EXCEPT !.ttl = ttl, !.headers = Append(m.headers, self)]
        exclude == IF fvariant = "simple" THEN m.from ELSE get_via(m.headers)
        out == IF relay THEN flood(ftopo, self, fwd, exclude, d.n, d.hops + 1, d.ttl0) ELSE {}
    IN  /\ d \in fnet
        /\ fseen' = [fseen EXCEPT ![self] = @ \cup {key}]
        /\ fout' = IF ~dup /\ local THEN fout \cup {<<self, d.n>>} ELSE fout
        /\ fnet' = (fnet \ {d}) \cup out
        /\ call' = [op |-> "handle", hops |-> d.hops, ttl0 |-> d.ttl0, ttl |-> m.ttl,
                    node |-> self, dup |-> dup, relayed |-> Cardinality(out)]
        /\ UNCHANGED <<ret, fvariant, ftopo, fsends>>
        /\ UNCHANGED notF

FloodDsts == {"D"}

NextFlood ==
    \/ \E self \in FloodSenders, to \in FloodDsts, ttl \in 0 .. MaxTTL : FloodSend(self, to, ttl)
    \/ \E d \in fnet : FloodHandle(d)

SpecFlood == InitFlood /\ [][NextFlood]_vars

(***************************************************************************)
(* parte2/run_node.py with parte2/lsr/forwarding.py: the data plane of the *)
(* four link-state nodes of the example topology, once every node holds    *)
(* the latest advertisement of every other node and has computed its table *)
(***************************************************************************)
\* generador.py topo_simple: the neighbour list of every node
topo_simple ==
    [n \in NodeIds |->
        CASE n = "A" -> <<"B", "C">>
          [] n = "B" -> <<"A", "D">>
          [] n = "C" -> <<"A", "D">>
          [] n = "D" -> <<"B", "C">>]

NeighborsOf(n) == {topo_simple[n][i] : i \in 1 .. Len(topo_simple[n])}

\* rtt = max(0.1, time.time() - t0): the floor, and the costs a hello can
\* measure here: the floor and half a second
HelloRtts == {RttFloor, TicksPerSec \div 2}

\* the costs the nodes have measured for their links: each node its own
\* figure for each neighbour
MeasuredCosts == [NodeIds -> [NodeIds -> HelloRtts]]
CostsOf(m, n) == [v \in NeighborsOf(n) |-> m[n][v]]

\* the order in which the advertisements of the other nodes first reached
\* n: by name, or the reverse
ArrivalOrder(n, k) ==
    LET a == SelectSeq(<<"A", "B", "C", "D">>, LAMBDA o : o # n)
    IN  IF k = 1 THEN a ELSE <<a[3], a[2], a[1]>>

\* apply_lsp of the advertisement of every origin of order, each carrying
\* the costs measured by its origin
RECURSIVE ApplyAll(_, _, _, _)
ApplyAll(d, t, order, m) ==
    IF order = <<>> THEN d
    ELSE ApplyAll(apply_lsp(d, t, Head(order), 1, LSP_AGE_SEC, CostsOf(m, Head(order))).db,
                  t, Tail(order), m)

\* messages.data(proto, src, dst, msg), with the id uuid4 gives it
data(proto, src, dst, mid) ==
    [type |-> TYPE_DATA, from |-> src, to |-> dst, id |-> mid, headers |-> <<>>,
     ttl |-> MAX_TTL, proto |-> proto]

\* dst_raw.split(".")[-1].strip() on the destinations used here
dst_bare(dst_raw) ==
    IF dst_raw = "sec20.topologia2.D" THEN "D"
    ELSE IF dst_raw = "sec20.topologia2.A" THEN "A"
    ELSE dst_raw

\* self.send(n, msg): a message on its way to n; hops counts the sends it
\* has been through
to_wire(self, n, msg, hops) == [msg |-> msg, hops |-> hops, rcv |-> n, snd |-> self]

InitData ==
    /\ IdleDijkstra
    /\ IdleCodec
    /\ IdleFwd
    /\ IdleLsp
    /\ IdleSock
    /\ IdleTopo
    /\ IdleLspNet
    /\ IdleDisc
    /\ now = 0 /\ call = NoCall /\ ret = None
    /\ db = <<>>
    /\ IdleRouting
    /\ seen = <<>> /\ cmax = max_items /\ accepted = EmptyMap /\ capHit = FALSE
    /\ IdleFlood
    /\ IdlePeriodic
    /\ \E m \in MeasuredCosts :
          /\ \A n \in NodeIds : \A v \in NodeIds \ NeighborsOf(n) : m[n][v] = RttFloor
          /\ ncosts = [n \in NodeIds |-> CostsOf(m, n)]
          /\ \E ord \in [NodeIds -> BOOLEAN] :
                ndb = [n \in NodeIds |->
                        ApplyAll(<<>>, 0, ArrivalOrder(n, IF ord[n] THEN 1 ELSE 2), m)]
    /\ ntable = [n \in NodeIds |-> spf_table(ndb[n], ncosts[n], n).table]
    /\ ncache = [n \in NodeIds |-> <<>>]
    /\ wire = {}
    /\ delivered = <<>>
    /\ dsent = FALSE

\* Forwarding.send_data(dst, msg) at node A, lines 30-40
SendData(dst) ==
    /\ ~dsent
    /\ dsent' = TRUE
    /\ LET self == node_id
           nh == routing_next_hop(PROTO_LSR, ntable[self], dst)
       IN  wire' = wire \cup
              (IF nh # None /\ PROTO_LSR # PROTO_FLOODING
               THEN {to_wire(self, nh, data(PROTO_LSR, self, dst, 1), 1)}
               ELSE {to_wire(self, n, data(PROTO_FLOODING, self, dst, StrRank[n]), 1) :
                        n \in DOMAIN ncosts[self]})
    /\ call' = [op |-> "send_data", dst |-> dst]
    /\ UNCHANGED <<ret, ncosts, ndb, ntable, ncache, delivered>>
    /\ UNCHANGED notN

\* the transport hands message w to Forwarding.on_message(peer, msg) of its
\* receiver, peer being the "from" field (sockets.py lines 78-79); lines
\* 44-53 and the TYPE_DATA branch, lines 77-129
OnData(w) ==
    LET self == w.rcv
        peer == w.msg.from
        ttl == w.msg.ttl - 1
        msg == [w.msg EXCEPT !.ttl = ttl]
        dst_raw == msg.to
        bare == dst_bare(dst_raw)
        local == dst_raw = "*" \/ (bare # "" /\ bare = self)
        nh == IF dst_raw # "*" /\ bare # ""
              THEN routing_next_hop(PROTO_LSR, ntable[self], bare) ELSE None
        sf == should_forward(ncache[self], max_items, now, msg.from, msg.id)
        copy == [msg EXCEPT !.headers = Append(msg.headers, self)]
        vecinos == (DOMAIN ncosts[self]) \ {peer}
    IN  /\ w \in wire
        /\ w.msg.type = TYPE_DATA
        /\ IF ttl <= 0
           THEN /\ wire' = wire \ {w}
                /\ UNCHANGED <<delivered, ncache>>
           ELSE /\ delivered' = IF local
                                THEN Append(delivered, [id |-> msg.id, hops |-> w.hops,
                                                        ttl |-> ttl, node |-> self])
                                ELSE delivered
                /\ IF local /\ dst_raw # "*"
                   THEN wire' = wire \ {w} /\ UNCHANGED ncache
                   ELSE IF nh # None
                   THEN /\ wire' = (wire \ {w}) \cup {to_wire(self, nh, msg, w.hops + 1)}
                        /\ UNCHANGED ncache
                   ELSE /\ ncache' = [ncache EXCEPT ![self] = sf.seen]
                        /\ wire' = (wire \ {w}) \cup
                              (IF sf.ret
                               THEN {to_wire(self, n, copy, w.hops + 1) : n \in vecinos}
                               ELSE {})
        /\ call' = [op |-> "on_message", ttl |-> ttl, node |-> self]
        /\ UNCHANGED <<ret, ncosts, ndb, ntable, dsent>>
        /\ UNCHANGED notN

DataDsts == {"D"}

NextData ==
    \/ \E dst \in DataDsts : SendData(dst)
    \/ \E w \in wire : OnData(w)

SpecData == InitData /\ [][NextData]_vars

(***************************************************************************)
(* parte2/run_node.py: node A of the example topology in lsr mode, its     *)
(* periodic timer thread and the transport thread that runs                *)
(* Forwarding.on_message for the messages of its neighbours                *)
(***************************************************************************)
\* time.time() when the node starts: late enough for both timers to be due
StartTime == 2 * HELLO_PERIOD_SEC * TicksPerSec

\* the clock stops NodeSecs seconds after the start; messages reach the
\* node during the first NodeInputSecs of them
NodeSecs == NodeInputSecs + SPF_DEBOUNCE_SEC + 1
InputsOpenAt(t) == t <= StartTime + NodeInputSecs * TicksPerSec
InputsOpen == InputsOpenAt(now)

InitNode ==
    /\ IdleDijkstra
    /\ IdleCodec
    /\ IdleFwd
    /\ IdleLsp
    /\ IdleSock
    /\ IdleTopo
    /\ IdleLspNet
    /\ IdleDisc
    /\ now = StartTime /\ call = NoCall /\ ret = None
    /\ db = <<>>
    /\ mode = PROTO_LSR
    /\ table = EmptyMap
    /\ costs = [n \in NeighborsOf(node_id) |-> TicksPerSec]
    /\ spfDeadline = 0 /\ spfpc = "idle" /\ scheds = <<>>
    /\ seen = <<>> /\ cmax = max_items /\ accepted = EmptyMap /\ capHit = FALSE
    /\ IdleFlood
    /\ IdleNet

\* periodic(), lines 101-107: the hello and the advertisement that are due
PeriodicEmit ==
    /\ tpc = "top"
    /\ LET hello == now - tHello >= HELLO_PERIOD_SEC * TicksPerSec
           lsp == mode = PROTO_LSR /\ now - tLsp >= HELLO_PERIOD_SEC * 2 * TicksPerSec
       IN  /\ tHello' = IF hello THEN now ELSE tHello
           /\ tLsp' = IF lsp THEN now ELSE tLsp
           /\ lspSeq' = IF lsp THEN lspSeq + 1 ELSE lspSeq
           /\ call' = [op |-> "emit", hello |-> hello, lsp |-> lsp]
    /\ tpc' = "sweep"
    /\ UNCHANGED <<now, ret, db, table, costs, spfDeadline, iter>>
    /\ UNCHANGED notP

\* LSDB.sweep(), line 25: the comprehension starts to iterate self.db
SweepScan ==
    /\ tpc = "sweep"
    /\ tpc' = "sweeping"
    /\ iter' = [size |-> Len(db), pos |-> 0, g |-> EmptyMap]
    /\ call' = [op |-> "sweep_scan"]
    /\ UNCHANGED <<now, ret, db, table, costs, spfDeadline, tHello, tLsp, lspSeq>>
    /\ UNCHANGED notP

\* LSDB.sweep(), lines 25-28, and line 110: the iteration ends, with
\* RuntimeError (dictionary changed size during iteration) if an origin was
\* inserted meanwhile, which ends the thread; else the expired entries go
\* and a removal schedules a recomputation
SweepEnd ==
    /\ tpc = "sweeping"
    /\ IF Len(db) # iter.size
       THEN /\ tpc' = "dead"
            /\ UNCHANGED <<db, spfDeadline>>
       ELSE /\ tpc' = "spf"
            /\ db' = sweep(db, now).db
            /\ spfDeadline' = IF sweep(db, now).ret THEN schedule_spf(spfDeadline, now)
                               ELSE spfDeadline
    /\ iter' = NoIter
    /\ call' = [op |-> "sweep"]
    /\ UNCHANGED <<now, ret, table, costs, tHello, tLsp, lspSeq>>
    /\ UNCHANGED notP

\* Routing.maybe_run_spf(), lines 36-42: the part under the lock, then
\* to_graph starts to iterate self.db; when nothing is due the loop sleeps
PeriodicMaybeRunSpf ==
    /\ tpc = "spf"
    /\ IF SpfDue(spfDeadline, now)
       THEN /\ spfDeadline' = 0
            /\ tpc' = "graph"
            /\ iter' = [size |-> Len(db), pos |-> 1, g |-> EmptyMap]
       ELSE /\ tpc' = "top"
            /\ UNCHANGED <<spfDeadline, iter>>
    /\ call' = [op |-> "maybe_run_spf"]
    /\ UNCHANGED <<now, ret, db, table, costs, tHello, tLsp, lspSeq>>
    /\ UNCHANGED notP

\* LSDB.to_graph(), lines 33-35, one origin per step, RuntimeError ending
\* the thread if an origin was inserted meanwhile; after the last origin,
\* Routing.maybe_run_spf() lines 44-49
GraphStep ==
    /\ tpc = "graph"
    /\ IF Len(db) # iter.size
       THEN /\ tpc' = "dead"
            /\ iter' = NoIter
            /\ call' = [op |-> "spf_raised"]
            /\ UNCHANGED table
       ELSE IF iter.pos <= Len(db)
       THEN /\ iter' = [iter EXCEPT !.pos = @ + 1,
                                    !.g = AddLinks(@, db[iter.pos].origin, db[iter.pos].links)]
            /\ call' = [op |-> "to_graph"]
            /\ UNCHANGED <<tpc, table>>
       ELSE /\ LET r == shortest_paths(AddLinks(iter.g, node_id, costs), node_id)
               IN  table' = [dst \in (DOMAIN r.nh) \ {node_id} |-> r.nh[dst]]
            /\ tpc' = "top"
            /\ iter' = NoIter
            /\ call' = [op |-> "spf"]
    /\ UNCHANGED <<now, ret, db, costs, spfDeadline, tHello, tLsp, lspSeq>>
    /\ UNCHANGED notP

\* on_message(peer, msg) for a hello of a neighbour that measures rtt,
\* lines 46-62
OnHello(peer, ttl, rtt) ==
    /\ InputsOpen
    /\ IF ttl - 1 <= 0 \/ peer \notin DOMAIN costs
       THEN UNCHANGED <<costs, spfDeadline>>
       ELSE /\ costs' = update_neighbor_cost(costs, peer, Max(RttFloor, rtt)).costs
            /\ spfDeadline' = IF update_neighbor_cost(costs, peer, Max(RttFloor, rtt)).ret
                               THEN schedule_spf(spfDeadline, now) ELSE spfDeadline
    /\ call' = [op |-> "on_hello"]
    /\ UNCHANGED <<now, ret, db, table, tpc, iter, tHello, tLsp, lspSeq>>
    /\ UNCHANGED notP

\* the advertisement origin sends with its seq-th send_lsp_all
LspLinks(origin) == [n \in NeighborsOf(origin) |-> RttFloor]

\* on_message(peer, msg) for an advertisement, lines 46-53 and 64-75; the
\* peer is the "from" field, which is the origin
OnLsp(origin, seq, ttl) ==
    /\ InputsOpen
    /\ LET r == apply_lsp(db, now, origin, seq, LSP_AGE_SEC, LspLinks(origin))
       IN  IF ttl - 1 <= 0
           THEN /\ UNCHANGED <<db, spfDeadline>>
                /\ call' = [op |-> "on_lsp", to |-> {}]
           ELSE /\ db' = r.db
                /\ spfDeadline' = IF r.ret THEN schedule_spf(spfDeadline, now) ELSE spfDeadline
                /\ call' = [op |-> "on_lsp",
                            to |-> IF r.ret THEN (DOMAIN costs) \ {origin} ELSE {}]
    /\ UNCHANGED <<now, ret, table, costs, tpc, iter, tHello, tLsp, lspSeq>>
    /\ UNCHANGED notP

\* a second passes; the transport loses nothing: the first advertisements
\* of B, C and D are in before the messages stop
TickNode ==
    /\ now < StartTime + NodeSecs * TicksPerSec
    /\ InputsOpenAt(now + TicksPerSec) \/ {"B", "C", "D"} \subseteq DbOrigins(db)
    /\ now' = now + TicksPerSec
    /\ call' = [op |-> "tick"]
    /\ UNCHANGED <<ret, db, table, costs, spfDeadline, tpc, iter, tHello, tLsp, lspSeq>>
    /\ UNCHANGED notP

NodeTtls == {1, MAX_TTL}

NextNode ==
    \/ PeriodicEmit
    \/ SweepScan
    \/ SweepEnd
    \/ PeriodicMaybeRunSpf
    \/ GraphStep
    \/ \E peer \in NeighborsOf(node_id), ttl \in NodeTtls, rtt \in HelloRtts : OnHello(peer, ttl, rtt)
    \/ \E o \in NodeIds \ {node_id}, q \in 1 .. MaxLspSeq, ttl \in NodeTtls : OnLsp(o, q, ttl)
    \/ TickNode

SpecNode == InitNode /\ [][NextNode]_vars

\* the messages have stopped, the clock has run out, and the timer thread
\* has nothing left to do: it has ended, or it is at the top of its loop
\* with no recomputation scheduled
NodeSettled ==
    /\ now = StartTime + NodeSecs * TicksPerSec
    /\ tpc = "dead" \/ (tpc = "top" /\ spfDeadline = 0)

(***************************************************************************)
(* parte2/lsr/messages.py: the envelopes and their JSON line encoding.     *)
(* A text is a sequence of characters.  A run of plain ASCII characters    *)
(* that json copies as it is ("proto", "lsr", a node id) is kept as one    *)
(* element; the characters json treats specially are single elements.  A   *)
(* float is kept in tenths and printed with one decimal.                   *)
(***************************************************************************)
LF == "\n"
QUOTE == "\""
BSLASH == "\\"
SPACE == " "
\* one character outside ASCII
NonAscii == "U+00E9"
Digits == <<"0", "1", "2", "3", "4", "5", "6", "7", "8", "9">>

\* JSON values: str, int, float, list, dict; kv holds the items of a list (keys
\* empty) or of a dict, in insertion order
JV(t, s, n, kv) == [n |-> n, t |-> t, s |-> s, kv |-> kv]
JStr(s) == JV("str", s, 0, <<>>)
JInt(n) == JV("int", <<>>, n, <<>>)
JFloat(n) == JV("float", <<>>, n, <<>>)
JList(kv) == JV("list", <<>>, 0, kv)
JDict(kv) == JV("dict", <<>>, 0, kv)
JNone == JV("none", <<>>, 0, <<>>)
\* json.loads raised JSONDecodeError
JSONDecodeError == JV("error", <<>>, 0, <<>>)
KV(k, v) == [k |-> <<k>>, v |-> v]

\* base(proto, mtype, src, dst, payload), lines 19-29, with id the uuid drawn
base(id, proto, mtype, src, dst, payload) ==
    JDict(<<KV("id", JStr(<<id>>)), KV("proto", JStr(<<proto>>)),
            KV("type", JStr(<<mtype>>)), KV("from", JStr(<<src>>)),
            KV("to", JStr(<<dst>>)), KV("ttl", JInt(MAX_TTL)),
            KV("headers", JList(<<>>)), KV("payload", payload)>>)

\* hello(proto, src, dst, t0), lines 36-37
hello(id, proto, src, dst, t0) ==
    base(id, proto, TYPE_HELLO, src, dst, JDict(<<KV("t0", JFloat(t0))>>))

\* lsp(proto, src, dst, origin, seq, age, links), lines 49-55; links is a
\* sequence of (neighbor, cost) in the order of the dict
lsp(id, proto, src, dst, origin, seq, age, links) ==
    base(id, proto, TYPE_INFO, src, dst,
         JDict(<<KV("origin", JStr(<<origin>>)), KV("seq", JInt(seq)),
                 KV("age", JFloat(age)),
                 KV("links", JDict([i \in 1..Len(links) |->
                                       KV(links[i][1], JFloat(links[i][2]))]))>>))

\* data(proto, src, dst_node, msg), lines 62-63, msg a text
json_data(id, proto, src, dst_node, msg) ==
    base(id, proto, TYPE_DATA, src, dst_node,
         JDict(<<KV("dst", JStr(<<dst_node>>)), KV("msg", JStr(msg))>>))

\* a plausible slip: writing every character as it is
escape_char_raw(c) == <<c>>

\* json.dumps on one character of a string (ensure_ascii)
escape_char(c) ==
    CASE c = QUOTE -> <<BSLASH, QUOTE>>
      [] c = BSLASH -> <<BSLASH, BSLASH>>
      [] c = LF -> <<BSLASH, "n">>
      [] c = NonAscii -> <<BSLASH, "u", "0", "0", "e", "9">>
      [] OTHER -> <<c>>

RECURSIVE escape(_)
escape(s) == IF s = <<>> THEN <<>> ELSE escape_char(Head(s)) \o escape(Tail(s))

\* the decimal digits of a natural
RECURSIVE digits(_)
digits(n) ==
    IF n < 10 THEN <<Digits[n + 1]>> ELSE digits(n \div 10) \o <<Digits[(n % 10) + 1]>>

\* json.dumps(v) with the default separators ", " and ": "
RECURSIVE dumps(_), dumps_items(_, _, _)
dumps(v) ==
    CASE v.t = "str" -> <<QUOTE>> \o escape(v.s) \o <<QUOTE>>
      [] v.t = "int" -> digits(v.n)
      [] v.t = "float" -> digits(v.n \div 10) \o <<".">> \o digits(v.n % 10)
      [] v.t = "list" -> <<"[">> \o dumps_items(v.kv, 1, FALSE) \o <<"]">>
      [] v.t = "dict" -> <<"{">> \o dumps_items(v.kv, 1, TRUE) \o <<"}">>

dumps_items(kv, i, keyed) ==
    IF i > Len(kv) THEN <<>>
    ELSE (IF i > 1 THEN <<",", SPACE>> ELSE <<>>)
         \o (IF keyed THEN <<QUOTE>> \o escape(kv[i].k) \o <<QUOTE, ":", SPACE>> ELSE <<>>)
         \o dumps(kv[i].v)
         \o dumps_items(kv, i + 1, keyed)

\* encode(msg), lines 68-69: the output of dumps is ASCII, one byte a character
encode(msg) == dumps(msg) \o <<LF>>

\* str.strip()
IsSpace(c) == c \in {SPACE, LF}
RECURSIVE lstrip(_)
lstrip(s) == IF s # <<>> /\ IsSpace(Head(s)) THEN lstrip(Tail(s)) ELSE s
RECURSIVE rstrip(_)
rstrip(s) == IF s # <<>> /\ IsSpace(s[Len(s)]) THEN rstrip(SubSeq(s, 1, Len(s) - 1)) ELSE s
strip(s) == rstrip(lstrip(s))

\* json.loads: a recursive-descent parser; a result is (ok, value, next index)
ParseFail == [v |-> JNone, i |-> 0, ok |-> FALSE]
Parsed(v, i) == [v |-> v, i |-> i, ok |-> TRUE]
IsDigit(c) == \E d \in 1..10 : Digits[d] = c
DigitVal(c) == (CHOOSE d \in 1..10 : Digits[d] = c) - 1

RECURSIVE skip_ws(_, _)
skip_ws(b, i) == IF i <= Len(b) /\ IsSpace(b[i]) THEN skip_ws(b, i + 1) ELSE i

\* the body of a string, from index i (after the opening quote)
RECURSIVE scan_string(_, _, _)
scan_string(b, i, acc) ==
    IF i > Len(b) THEN ParseFail
    ELSE IF b[i] = QUOTE THEN Parsed(JStr(acc), i + 1)
    ELSE IF b[i] = LF THEN ParseFail
    ELSE IF b[i] = BSLASH
    THEN IF i + 1 > Len(b) THEN ParseFail
         ELSE IF b[i + 1] \in {QUOTE, BSLASH} THEN scan_string(b, i + 2, Append(acc, b[i + 1]))
         ELSE IF b[i + 1] = "n" THEN scan_string(b, i + 2, Append(acc, LF))
         ELSE IF b[i + 1] = "u" /\ i + 5 <= Len(b)
                 /\ SubSeq(b, i + 2, i + 5) = <<"0", "0", "e", "9">>
              THEN scan_string(b, i + 6, Append(acc, NonAscii))
         ELSE ParseFail
    ELSE scan_string(b, i + 1, Append(acc, b[i]))

RECURSIVE scan_int(_, _, _)
scan_int(b, i, acc) ==
    IF i <= Len(b) /\ IsDigit(b[i]) THEN scan_int(b, i + 1, acc * 10 + DigitVal(b[i]))
    ELSE [n |-> acc, i |-> i]

parse_number(b, i) ==
    LET a == scan_int(b, i, 0)
    IN  IF a.i + 1 <= Len(b) /\ b[a.i] = "." /\ IsDigit(b[a.i + 1])
        THEN Parsed(JFloat(a.n * 10 + DigitVal(b[a.i + 1])), a.i + 2)
        ELSE Parsed(JInt(a.n), a.i)

RECURSIVE parse_value(_, _), parse_items(_, _, _, _)
parse_value(b, i0) ==
    LET i == skip_ws(b, i0)
    IN  IF i > Len(b) THEN ParseFail
        ELSE IF b[i] = QUOTE THEN scan_string(b, i + 1, <<>>)
        ELSE IF b[i] = "[" THEN parse_items(b, i + 1, <<>>, FALSE)
        ELSE IF b[i] = "{" THEN parse_items(b, i + 1, <<>>, TRUE)
        ELSE IF IsDigit(b[i]) THEN parse_number(b, i)
        ELSE ParseFail

\* the items of a list (keyed false) or the members of an object, from index i0
parse_items(b, i0, acc, keyed) ==
    LET i == skip_ws(b, i0)
        close == IF keyed THEN "}" ELSE "]"
        made(kv) == IF keyed THEN JDict(kv) ELSE JList(kv)
    IN  IF i > Len(b) THEN ParseFail
        ELSE IF acc = <<>> /\ b[i] = close THEN Parsed(made(acc), i + 1)
        ELSE
          LET key == IF ~keyed THEN Parsed(JStr(<<>>), i)
                     ELSE IF b[i] = QUOTE THEN scan_string(b, i + 1, <<>>)
                     ELSE ParseFail
              c == skip_ws(b, key.i)
              val == IF ~key.ok THEN ParseFail
                     ELSE IF ~keyed THEN parse_value(b, i)
                     ELSE IF c <= Len(b) /\ b[c] = ":" THEN parse_value(b, c + 1)
                     ELSE ParseFail
              j == skip_ws(b, val.i)
              acc2 == Append(acc, [k |-> key.v.s, v |-> val.v])
          IN  IF ~val.ok \/ j > Len(b) THEN ParseFail
              ELSE IF b[j] = "," THEN parse_items(b, j + 1, acc2, keyed)
              ELSE IF b[j] = close THEN Parsed(made(acc2), j + 1)
              ELSE ParseFail

loads(b) ==
    LET r == parse_value(b, 1)
    IN  IF r.ok /\ skip_ws(b, r.i) > Len(b) THEN r.v ELSE JSONDecodeError

\* decode(line), lines 72-73
decode(line) == loads(strip(line))

\* the message texts: every text of at most MaxText characters
TextChars == {"a", QUOTE, BSLASH, LF, SPACE, NonAscii}
Texts == UNION {[1..k -> TextChars] : k \in 0..MaxText}

\* the links carried by an advertisement
CodecLinks == {<<>>, <<<<"B", TicksPerSec>>>>, <<<<"B", TicksPerSec>>, <<"C", RttFloor>>>>}

\* the envelopes the three builders make
CodecMessages ==
    {hello("m1", p, "A", d, t0) :
        p \in {PROTO_LSR}, d \in {"B"}, t0 \in {0, 25}}
    \cup {lsp("m1", p, "A", d, "A", s, LSP_AGE_SEC * TicksPerSec, l) :
        p \in {PROTO_LSR}, d \in {"B", "C"}, s \in 0..MaxSeq, l \in CodecLinks}
    \cup {json_data("m1", p, "A", d, m) :
        p \in {PROTO_LSR, PROTO_FLOODING}, d \in {"B", "*"}, m \in Texts}

InitCodec ==
    /\ emsg \in CodecMessages
    /\ ebytes = <<>> /\ edec = JNone /\ epc = "built"
    /\ now = 0 /\ call = NoCall /\ ret = None
    /\ db = <<>>
    /\ IdleDijkstra
    /\ IdleFwd
    /\ IdleLsp
    /\ IdleSock
    /\ IdleTopo
    /\ IdleLspNet
    /\ IdleDisc
    /\ IdleRouting
    /\ IdleCache

\* the sender: encode(msg)
Encode ==
    /\ epc = "built"
    /\ ebytes' = encode(emsg)
    /\ epc' = "encoded"
    /\ UNCHANGED <<emsg, edec>>
    /\ UNCHANGED notE

\* the receiver: decode(line)
Decode ==
    /\ epc = "encoded"
    /\ edec' = decode(ebytes)
    /\ epc' = "decoded"
    /\ UNCHANGED <<emsg, ebytes>>
    /\ UNCHANGED notE

NextCodec == Encode \/ Decode

SpecCodec == InitCodec /\ [][NextCodec]_vars

(***************************************************************************)
(* forwarding.py and parte2/lsr/forwarding.py: one call of a handler of    *)
(* the Forwarding object of node A, wired as run_node.py wires it, in each *)
(* of the states the node is in before and after its first recomputation,  *)
(* and before and after it has flooded the message m1 of D.                *)
(***************************************************************************)
\* the two Forwarding classes: "simple" is forwarding.py, "lsr" is
\* parte2/lsr/forwarding.py
FwdVariants == {"simple", "lsr"}

\* an envelope as the handlers read it
env(id, proto, mtype, src, dst, ttl, payload) ==
    [type |-> mtype, from |-> src, to |-> dst, payload |-> payload, id |-> id,
     headers |-> <<>>, ttl |-> ttl, proto |-> proto]
\* t0 is the JSON value the payload holds for "t0", JNone when it has none
env_hello(src, dst, t0, ttl) ==
    env("h1", PROTO_LSR, TYPE_HELLO, src, dst, ttl, [t0 |-> t0])
env_lsp(origin, dst, seq, ttl) ==
    env("l1", PROTO_LSR, TYPE_INFO, origin, dst, ttl,
        [origin |-> origin, seq |-> seq, age |-> LSP_AGE_SEC, links |-> LspLinks(origin)])
env_data(proto, src, dst, mid, ttl) ==
    env(mid, proto, TYPE_DATA, src, dst, ttl, [msg |-> "text", dst |-> dst])

\* the adapters' choice of the peer handed to on_message: the "from" field
adapter_peer(msg) == msg.from

\* self.send(n, msg) for every n of S, in the order of the ids
RECURSIVE send_each(_, _)
send_each(S, msg) ==
    IF S = {} THEN <<>>
    ELSE LET n == CHOOSE a \in S : \A b \in S : StrRank[a] <= StrRank[b]
         IN  <<[msg |-> msg, to |-> n]>> \o send_each(S \ {n}, msg)

\* what one handler call did: the node's state after it, the envelopes sent,
\* the "[DATA]" lines printed, the branch taken, and whether the routing
\* table was consulted
Out(st, snt, prn, path, lookup) ==
    [sent |-> snt, printed |-> prn, st |-> st, path |-> path, lookup |-> lookup]

\* a plausible slip: only a negative ttl stops the message
ttl_expired_lt(ttl) == ttl < 0

\* the test "if ttl <= 0: return" of on_message
ttl_expired(ttl) == ttl <= 0

\* a plausible slip: the ttl is tested but the message keeps the one it had
ttl_after_hop_keep(ttl) == IF ttl <= 1 THEN ttl - 1 ELSE ttl

\* "ttl -= 1" of on_message, stored back with msg["ttl"] = ttl
ttl_after_hop(ttl) == ttl - 1

\* a plausible slip: the cost of a sender that is no neighbour is recorded
hello_accepts_any(st, peer, t0) == t0.t \in {"int", "float"}

\* the test of line 58: isinstance(t0, (int, float)) and peer in
\* self.routing.costs_to_neighbors
hello_accepts(st, peer, t0) == t0.t \in {"int", "float"} /\ peer \in DOMAIN st.costs

\* the hello branch of on_message
on_hello(st, t, peer, msg) ==
    IF hello_accepts(st, peer, msg.payload.t0)
    THEN LET rtt == Max(RttFloor, t - msg.payload.t0.n)
             u == update_neighbor_cost(st.costs, peer, rtt)
         IN  Out([st EXCEPT !.costs = u.costs,
                            !.deadline = IF u.ret THEN schedule_spf(@, t) ELSE @],
                 <<>>, <<>>, "hello", FALSE)
    ELSE Out(st, <<>>, <<>>, "hello", FALSE)

\* a plausible slip: the advertisement is relayed whatever apply_lsp returns
on_info_always(st, t, peer, msg) ==
    LET pl == msg.payload
        r == apply_lsp(st.db, t, pl.origin, pl.seq, pl.age, pl.links)
    IN  Out([st EXCEPT !.db = r.db, !.deadline = schedule_spf(@, t)],
            send_each((DOMAIN st.costs) \ {peer}, msg), <<>>, "lsp_relay", FALSE)

\* the info branch of on_message, lines 64-75
on_info(st, t, peer, msg) ==
    LET pl == msg.payload
        r == apply_lsp(st.db, t, pl.origin, pl.seq, pl.age, pl.links)
    IN  IF r.ret
        THEN Out([st EXCEPT !.db = r.db, !.deadline = schedule_spf(@, t)],
                 send_each((DOMAIN st.costs) \ {peer}, msg), <<>>, "lsp_relay", FALSE)
        ELSE Out(st, <<>>, <<>>, "lsp_old", FALSE)

\* the "[DATA]" line printed on a local delivery
data_line(self, msg) == [from |-> msg.from, id |-> msg.id, node |-> self]

\* a plausible slip: a local delivery never stops the processing
local_stop_never(dst_raw) == FALSE

\* "if dst_raw != '*': return" after the local delivery, parte2 lines 102-103
local_stop(dst_raw) == dst_raw # "*"

\* the flooding of a data message that has no next hop, with the de-dup cache
flood_data(st, t, peer, msg, out, prn, lookup) ==
    LET sf == should_forward(st.seen, max_items, t, msg.from, msg.id)
    IN  IF sf.ret
        THEN Out([st EXCEPT !.seen = sf.seen],
                 send_each((DOMAIN st.costs) \ {peer}, out), prn, "flood", lookup)
        ELSE Out([st EXCEPT !.seen = sf.seen], <<>>, prn, "dup", lookup)

\* the data branch of on_message in parte2/lsr/forwarding.py, lines 77-129
on_data_lsr(st, t, self, peer, msg) ==
    LET dst_raw == IF msg.to # "" THEN msg.to ELSE msg.payload.dst
        bare == dst_bare(dst_raw)
        local == dst_raw = "*" \/ (bare # "" /\ bare = self)
        prn == IF local THEN <<data_line(self, msg)>> ELSE <<>>
        lookup == dst_raw # "*" /\ bare # ""
        nh == IF lookup THEN routing_next_hop(st.mode, st.table, bare) ELSE None
    IN  IF local /\ local_stop(dst_raw) THEN Out(st, <<>>, prn, "local", FALSE)
        ELSE IF nh # None THEN Out(st, <<[msg |-> msg, to |-> nh]>>, prn, "nexthop", lookup)
        ELSE flood_data(st, t, peer, msg,
                        [msg EXCEPT !.headers = Append(@, [via |-> self])], prn, lookup)

\* the data branch of on_message in forwarding.py, lines 74-90
on_data_simple(st, t, self, peer, msg) ==
    LET dst == msg.payload.dst
        nh == routing_next_hop(st.mode, st.table, dst)
    IN  IF dst = self THEN Out(st, <<>>, <<data_line(self, msg)>>, "local", FALSE)
        ELSE IF nh # None THEN Out(st, <<[msg |-> msg, to |-> nh]>>, <<>>, "nexthop", TRUE)
        ELSE flood_data(st, t, peer, msg, msg, <<>>, TRUE)

\* Forwarding.on_message(peer, msg) at time t
on_message(variant, st, t, self, peer, msg) ==
    IF ttl_expired(ttl_after_hop(msg.ttl)) THEN Out(st, <<>>, <<>>, "drop", FALSE)
    ELSE LET m == [msg EXCEPT !.ttl = ttl_after_hop(@)]
         IN  IF m.type = TYPE_HELLO THEN on_hello(st, t, peer, m)
             ELSE IF m.type = TYPE_INFO /\ m.proto = PROTO_LSR THEN on_info(st, t, peer, m)
             ELSE IF m.type = TYPE_DATA
             THEN IF variant = "lsr" THEN on_data_lsr(st, t, self, peer, m)
                  ELSE on_data_simple(st, t, self, peer, m)
             ELSE Out(st, <<>>, <<>>, "ignored", FALSE)

\* a plausible slip: the flooded copies carry the tag of the current mode
flood_tag_mode(m) == m

\* the tag of the envelopes send_data floods
flood_tag(m) == PROTO_FLOODING

\* the loop of send_data over the neighbours S, in the order of the ids:
\* every round calls data(...), and base() draws a new uuid4 for each call,
\* the next of ids
RECURSIVE send_copies(_, _, _, _, _)
send_copies(S, self, dst, tag, ids) ==
    IF S = {} THEN <<>>
    ELSE LET n == CHOOSE a \in S : \A b \in S : StrRank[a] <= StrRank[b]
         IN  <<[msg |-> env_data(tag, self, dst, Head(ids), MAX_TTL), to |-> n]>>
                 \o send_copies(S \ {n}, self, dst, tag, Tail(ids))

\* Forwarding.send_data(dst, msg): the envelopes sent, ids being the uuid4
\* values the calls of data(...) draw
send_data(variant, st, self, dst, ids) ==
    LET nh == routing_next_hop(st.mode, st.table, dst)
        direct == IF variant = "lsr" THEN nh # None /\ st.mode # PROTO_FLOODING
                  ELSE nh # None
    IN  IF direct THEN <<[msg |-> env_data(st.mode, self, dst, Head(ids), MAX_TTL), to |-> nh]>>
        ELSE send_copies(DOMAIN st.costs, self, dst, flood_tag(st.mode), ids)

\* the advertisements of B, C and D, all accepted a second ago
FwdDb ==
    LET t == StartTime - TicksPerSec
        d1 == apply_lsp(<<>>, t, "B", 1, LSP_AGE_SEC, LspLinks("B")).db
        d2 == apply_lsp(d1, t, "C", 1, LSP_AGE_SEC, LspLinks("C")).db
    IN  apply_lsp(d2, t, "D", 1, LSP_AGE_SEC, LspLinks("D")).db

\* the cache after the message m1 of D has been flooded a second ago
FwdSeen == should_forward(<<>>, max_items, StartTime - TicksPerSec, "D", "m1").seen

InitFwd ==
    /\ IdleDijkstra
    /\ IdleCodec
    /\ IdleLsp
    /\ IdleSock
    /\ IdleTopo
    /\ IdleLspNet
    /\ IdleDisc
    /\ IdleFlood
    /\ IdleNet
    /\ now = StartTime /\ call = NoCall /\ ret = None
    /\ wvariant \in FwdVariants
    /\ wpc = "ready" /\ sent = <<>> /\ printed = <<>>
    /\ mode \in Modes
    /\ costs = [n \in NeighborsOf(node_id) |-> TicksPerSec]
    /\ db \in {<<>>, FwdDb}
    /\ table = IF db = <<>> THEN EmptyMap ELSE spf_table(db, costs, node_id).table
    /\ spfDeadline = 0 /\ spfpc = "idle" /\ scheds = <<>>
    /\ seen \in {<<>>, FwdSeen}
    /\ cmax = max_items /\ accepted = EmptyMap /\ capHit = FALSE

\* the state of the Routing and Forwarding objects the handlers work on
FwdState ==
    [db |-> db, mode |-> mode, table |-> table, costs |-> costs, seen |-> seen,
     deadline |-> spfDeadline]

notW == <<dvars, fvars, nvars, pvars, evars, qvars, svars, gvars, kvars, xvars, now, ret, mode, table, spfpc, scheds,
          cmax, accepted, capHit, wvariant>>

\* the transport thread: a message that came over the link of the neighbour
\* via is decoded and handed to on_message with the peer the adapter names
Receive(via, msg) ==
    /\ wpc = "ready"
    /\ LET o == on_message(wvariant, FwdState, now, node_id, adapter_peer(msg), msg)
       IN  /\ costs' = o.st.costs
           /\ db' = o.st.db
           /\ seen' = o.st.seen
           /\ spfDeadline' = o.st.deadline
           /\ sent' = o.sent
           /\ printed' = o.printed
           /\ call' = [op |-> "on_message", msg |-> msg, path |-> o.path,
                       lookup |-> o.lookup, via |-> via]
    /\ wpc' = "done"
    /\ UNCHANGED notW

\* str(uuid.uuid4()) of the successive calls of base() in one process
uuid4 == <<"m2", "m3", "m4">>

\* the command thread: send <dst> <text>
FwdSendData(dst) ==
    /\ wpc = "ready"
    /\ sent' = send_data(wvariant, FwdState, node_id, dst, uuid4)
    /\ call' = [op |-> "send_data", dst |-> dst]
    /\ wpc' = "done"
    /\ UNCHANGED <<costs, db, seen, spfDeadline, printed>>
    /\ UNCHANGED notW

\* the inputs of the handlers
FwdTtls == {0, 1, 2, MAX_TTL}
FwdOrigins == {"B", "C", "D"}
\* the t0 of a hello: a second ago, now, a text, none
FwdT0s == {JFloat(StartTime - TicksPerSec), JFloat(StartTime), JStr(<<"x">>), JNone}
FwdDsts == {"A", "sec20.topologia2.A", "D", "*"}

NextFwd ==
    \/ \E src \in FwdOrigins, t0 \in FwdT0s, ttl \in FwdTtls :
            Receive(src, env_hello(src, node_id, t0, ttl))
    \/ \E via \in NeighborsOf(node_id), o \in FwdOrigins, q \in 1..(MaxLspSeq + 1),
          ttl \in FwdTtls :
            Receive(via, env_lsp(o, IF o = via THEN node_id ELSE via, q, ttl))
    \/ \E via \in NeighborsOf(node_id), p \in {PROTO_LSR, PROTO_FLOODING},
          src \in {"B", "D"}, dst \in FwdDsts, ttl \in FwdTtls :
            Receive(via, env_data(p, src, dst, "m1", ttl))
    \/ \E dst \in {"B", "D"} : FwdSendData(dst)

SpecFwd == InitFwd /\ [][NextFwd]_vars

(***************************************************************************)
(* parte2/lsr/forwarding.py send_lsp_all, called by the periodic thread    *)
(* and by the command thread of run_node.py on the same Forwarding object  *)
(* of node A.  Nothing orders the two threads: the statement               *)
(* self.lsp_seq += 1 is a read followed by a write, and every envelope of  *)
(* the loop reads self.lsp_seq again.                                      *)
(***************************************************************************)
LspThreads == {"periodic", "command"}

\* line 25, first half: the thread reads self.lsp_seq
LspLoad(t) ==
    /\ lpc[t] = "idle"
    /\ linv < MaxLspCalls
    /\ linv' = linv + 1
    /\ linvOf' = [linvOf EXCEPT ![t] = linv + 1]
    /\ lreg' = [lreg EXCEPT ![t] = lspSeq]
    /\ lpc' = [lpc EXCEPT ![t] = "loaded"]
    /\ UNCHANGED <<lidx, lsent, lspSeq>>
    /\ UNCHANGED notQ

\* line 25, second half: the thread writes the value read plus one
LspStore(t) ==
    /\ lpc[t] = "loaded"
    /\ lspSeq' = lreg[t] + 1
    /\ lidx' = [lidx EXCEPT ![t] = 1]
    /\ lpc' = [lpc EXCEPT ![t] = "send"]
    /\ UNCHANGED <<linv, linvOf, lreg, lsent>>
    /\ UNCHANGED notQ

\* lines 27-28, one turn of the loop: the envelope for the next neighbour is
\* built with the value self.lsp_seq has now, and sent
LspSend(t) ==
    /\ lpc[t] = "send"
    /\ LET ns == topo_simple[node_id]
       IN  /\ lsent' = Append(lsent, [seq |-> lspSeq, to |-> ns[lidx[t]], inv |-> linvOf[t]])
           /\ IF lidx[t] = Len(ns)
              THEN /\ lpc' = [lpc EXCEPT ![t] = "idle"]
                   /\ lidx' = [lidx EXCEPT ![t] = 0]
              ELSE /\ lpc' = lpc
                   /\ lidx' = [lidx EXCEPT ![t] = @ + 1]
    /\ UNCHANGED <<linv, linvOf, lreg, lspSeq>>
    /\ UNCHANGED notQ

InitLsp ==
    /\ IdleDijkstra
    /\ IdleCodec
    /\ IdleFwd
    /\ IdleLsp
    /\ IdleSock
    /\ IdleTopo
    /\ IdleLspNet
    /\ IdleDisc
    /\ now = 0 /\ call = NoCall /\ ret = None
    /\ db = <<>>
    /\ IdleRouting
    /\ IdleCache

NextLsp == \E t \in LspThreads : LspLoad(t) \/ LspStore(t) \/ LspSend(t)

SpecLsp == InitLsp /\ [][NextLsp]_vars

(***************************************************************************)
(* parte2/lsr/adapters/sockets.py: the SocketAdapter of node A, whose      *)
(* send is called by the command thread, the periodic thread and (inside   *)
(* on_message) its own I/O thread, and the _loop of the adapter of its     *)
(* peer B, which reads what arrives.  A TCP connection carries the bytes   *)
(* written and not yet read, in order; a read returns any non-empty prefix *)
(* of them.  A client that is not a SocketAdapter may connect to B too.    *)
(***************************************************************************)
SockThreads == {"command", "periodic", "io"}
\* self.peers of A: the peers with a configured endpoint
peers == {"B"}
\* the peer ids send is called with
SockTargets == {"B", "Z"}
\* the messages send is called with
SockMessages == {JDict(<<KV("id", JInt(1))>>), JDict(<<KV("from", JStr(<<"A">>))>>)}
\* a line that is not JSON
Garbage == <<"x", LF>>

\* a connection to B's listening socket: owner is "A" for an out_socks socket
\* of A and "X" for a foreign client; sopen and sreg are the owner's socket
\* (open, registered with A's selector); rstate is B's end ("pending" until
\* accepted, then "open", "closed" once B has closed it); mid tells that
\* B's last read ended inside a line
NewConn(owner, peer) ==
    [peer |-> peer, mid |-> FALSE, owner |-> owner, stream |-> <<>>, sopen |-> TRUE,
     sreg |-> (owner = "A"), rstate |-> "pending"]

\* a plausible slip: the failed connection stays in the cache
teardown_keep(socks, peer) == socks

\* self.out_socks.pop(peer_id, None), line 51
teardown(socks, peer) == [socks EXCEPT ![peer] = 0]

\* dict.get(key, default) on a decoded object
dict_get(v, key, default) ==
    LET hits == SelectSeq(v.kv, LAMBDA e : e.k = <<key>>)
    IN  IF hits = <<>> THEN default ELSE hits[Len(hits)].v

\* buf.split(b"\n"), with acc the line being collected
RECURSIVE split(_, _)
split(buf, acc) ==
    IF buf = <<>> THEN <<acc>>
    ELSE IF Head(buf) = LF THEN <<acc>> \o split(Tail(buf), <<>>)
    ELSE split(Tail(buf), Append(acc, Head(buf)))

\* the loop of lines 73-79 from line i on: the on_message calls made, and
\* whether the loop ended without raising
RECURSIVE dispatch_lines(_, _, _)
dispatch_lines(lines, i, acc) ==
    IF i > Len(lines) THEN [out |-> acc, ok |-> TRUE]
    ELSE IF strip(lines[i]) = <<>> THEN dispatch_lines(lines, i + 1, acc)
    ELSE LET msg == decode(Append(lines[i], LF))
         IN  IF msg = JSONDecodeError \/ msg.t # "dict"
             THEN [out |-> acc, ok |-> FALSE]
             ELSE dispatch_lines(lines, i + 1,
                     Append(acc, [peer |-> dict_get(msg, "from", JStr(<<"?">>)), msg |-> msg]))

notS == <<dvars, lvars, rvars, cvars, fvars, nvars, pvars, evars, wvars, qvars,
          gvars, kvars, xvars>>

InitSock ==
    /\ IdleDijkstra
    /\ IdleCodec
    /\ IdleFwd
    /\ IdleLsp
    /\ IdleSock
    /\ IdleTopo
    /\ IdleLspNet
    /\ IdleDisc
    /\ now = 0 /\ call = NoCall /\ ret = None
    /\ db = <<>>
    /\ IdleRouting
    /\ IdleCache

\* send(peer_id, msg) entered by thread t: the test of line 40 and, inside
\* _connect_peer, the test of line 26, which read the same dict
SendBegin(t, peer, msg) ==
    /\ spc[t] = "idle"
    /\ nsends < MaxSockSends
    /\ nsends' = nsends + 1
    /\ sarg' = [sarg EXCEPT ![t] = [peer |-> peer, msg |-> msg]]
    /\ spc' = [spc EXCEPT ![t] = IF out_socks[peer] = 0 /\ peer \in peers
                                 THEN "connect" ELSE "get"]
    /\ call' = [op |-> "send", peer |-> peer, thread |-> t]
    /\ UNCHANGED <<now, ret, out_socks, conns, ssock, written, dispatched>>
    /\ UNCHANGED notS

\* _connect_peer, lines 28-37: the connection is made, registered and
\* cached, or connect raises and the socket is closed
Connect(t, ok) ==
    /\ spc[t] = "connect"
    /\ IF ok
       THEN /\ conns' = Append(conns, NewConn("A", sarg[t].peer))
            /\ out_socks' = [out_socks EXCEPT ![sarg[t].peer] = Len(conns) + 1]
       ELSE UNCHANGED <<conns, out_socks>>
    /\ spc' = [spc EXCEPT ![t] = "get"]
    /\ call' = [op |-> "connect", peer |-> sarg[t].peer, ok |-> ok, thread |-> t]
    /\ UNCHANGED <<now, ret, sarg, ssock, nsends, written, dispatched>>
    /\ UNCHANGED notS

\* send, lines 42-43
Get(t) ==
    /\ spc[t] = "get"
    /\ LET s == out_socks[sarg[t].peer]
       IN  /\ ssock' = [ssock EXCEPT ![t] = s]
           /\ spc' = [spc EXCEPT ![t] = IF s = 0 THEN "idle" ELSE "write"]
           /\ sarg' = [sarg EXCEPT ![t] = IF s = 0 THEN NoSend ELSE @]
    /\ call' = [op |-> "get", peer |-> sarg[t].peer, thread |-> t]
    /\ UNCHANGED <<now, ret, out_socks, conns, nsends, written, dispatched>>
    /\ UNCHANGED notS

\* send, lines 44-52: sendall writes the bytes, or it raises and the
\* connection is torn down; on a socket already closed it raises.  What a
\* failing sendall had written before it raised is left out: the sender
\* closes the connection at once
Write(t, ok) ==
    /\ spc[t] = "write"
    /\ LET s == ssock[t]
           peer == sarg[t].peer
       IN  /\ ok => conns[s].sopen
           /\ IF ok
              THEN /\ conns' = [conns EXCEPT ![s].stream = @ \o encode(sarg[t].msg)]
                   /\ written' = Append(written, [msg |-> sarg[t].msg, conn |-> s])
                   /\ UNCHANGED out_socks
              ELSE /\ conns' = [conns EXCEPT ![s].sopen = FALSE, ![s].sreg = FALSE]
                   /\ out_socks' = teardown(out_socks, peer)
                   /\ UNCHANGED written
           /\ call' = [op |-> "sendall", peer |-> peer, ok |-> ok, thread |-> t, conn |-> s]
    /\ spc' = [spc EXCEPT ![t] = "idle"]
    /\ sarg' = [sarg EXCEPT ![t] = NoSend]
    /\ ssock' = [ssock EXCEPT ![t] = 0]
    /\ UNCHANGED <<now, ret, nsends, dispatched>>
    /\ UNCHANGED notS

\* _loop of A, lines 64-71 and 80-85, on an out_socks socket whose other end
\* B has closed: recv returns nothing or raises, the socket is unregistered
\* and closed, and out_socks is left as it is
SenderEof(c) ==
    /\ spc["io"] = "idle"
    /\ c \in 1 .. Len(conns)
    /\ conns[c].owner = "A" /\ conns[c].sreg /\ conns[c].rstate = "closed"
    /\ conns' = [conns EXCEPT ![c].sopen = FALSE, ![c].sreg = FALSE]
    /\ call' = [op |-> "eof", conn |-> c]
    /\ UNCHANGED <<now, ret, out_socks, spc, sarg, ssock, nsends, written, dispatched>>
    /\ UNCHANGED notS

\* a client that is not a SocketAdapter connects to B
ForeignConnect ==
    /\ \A i \in 1 .. Len(conns) : conns[i].owner # "X"
    /\ conns' = Append(conns, NewConn("X", "B"))
    /\ call' = [op |-> "foreign_connect"]
    /\ UNCHANGED <<now, ret, out_socks, spc, sarg, ssock, nsends, written, dispatched>>
    /\ UNCHANGED notS

\* and writes a line to it
ForeignWrite(c, unit) ==
    /\ c \in 1 .. Len(conns)
    /\ conns[c].owner = "X" /\ conns[c].sopen
    /\ nsends < MaxSockSends
    /\ nsends' = nsends + 1
    /\ conns' = [conns EXCEPT ![c].stream = @ \o unit]
    /\ call' = [op |-> "foreign_write", conn |-> c]
    /\ UNCHANGED <<now, ret, out_socks, spc, sarg, ssock, written, dispatched>>
    /\ UNCHANGED notS

\* _loop of B, lines 58-62: the listening socket is readable
Accept(c) ==
    /\ c \in 1 .. Len(conns)
    /\ conns[c].rstate = "pending"
    /\ conns' = [conns EXCEPT ![c].rstate = "open"]
    /\ call' = [op |-> "accept", conn |-> c]
    /\ UNCHANGED <<now, ret, out_socks, spc, sarg, ssock, nsends, written, dispatched>>
    /\ UNCHANGED notS

\* _loop of B, lines 64-85, on a connection with bytes to read: recv
\* returns the first k of them
Recv(c, k) ==
    /\ c \in 1 .. Len(conns)
    /\ conns[c].rstate = "open"
    /\ k \in 1 .. Len(conns[c].stream)
    /\ LET buf == SubSeq(conns[c].stream, 1, k)
           r == dispatch_lines(split(buf, <<>>), 1, <<>>)
       IN  /\ dispatched' = dispatched \o
                  [i \in 1 .. Len(r.out) |->
                      [peer |-> r.out[i].peer, msg |-> r.out[i].msg, conn |-> c]]
           /\ conns' = [conns EXCEPT
                  ![c].stream = SubSeq(@, k + 1, Len(@)),
                  ![c].rstate = IF r.ok THEN "open" ELSE "closed",
                  ![c].mid = (buf[k] # LF)]
           /\ call' = [op |-> "recv", buf |-> buf, conn |-> c, aligned |-> ~conns[c].mid]
    /\ UNCHANGED <<now, ret, out_socks, spc, sarg, ssock, nsends, written>>
    /\ UNCHANGED notS

\* _loop of B, lines 67-71: the owner has closed and everything is read
RecvEof(c) ==
    /\ c \in 1 .. Len(conns)
    /\ conns[c].rstate = "open"
    /\ conns[c].stream = <<>> /\ ~conns[c].sopen
    /\ conns' = [conns EXCEPT ![c].rstate = "closed"]
    /\ call' = [op |-> "recv_eof", conn |-> c]
    /\ UNCHANGED <<now, ret, out_socks, spc, sarg, ssock, nsends, written, dispatched>>
    /\ UNCHANGED notS

\* the lines a foreign client writes
ForeignUnits == {Garbage} \cup {encode(m) : m \in SockMessages}

\* the sender alone: the three threads of node A in send
NextSock ==
    \/ \E t \in SockThreads, p \in SockTargets, m \in SockMessages : SendBegin(t, p, m)
    \/ \E t \in SockThreads, ok \in BOOLEAN : Connect(t, ok)
    \/ \E t \in SockThreads : Get(t)
    \/ \E t \in SockThreads, ok \in BOOLEAN : Write(t, ok)

SpecSock == InitSock /\ [][NextSock]_vars

\* one sending thread of A, a foreign client, and the _loop of B
StreamThreads == {"command"}

NextStream ==
    \/ \E t \in StreamThreads, p \in SockTargets, m \in SockMessages : SendBegin(t, p, m)
    \/ \E t \in StreamThreads, ok \in BOOLEAN : Connect(t, ok)
    \/ \E t \in StreamThreads : Get(t)
    \/ \E t \in StreamThreads, ok \in BOOLEAN : Write(t, ok)
    \/ \E c \in 1 .. Len(conns) : SenderEof(c)
    \/ ForeignConnect
    \/ \E c \in 1 .. Len(conns), u \in ForeignUnits : ForeignWrite(c, u)
    \/ \E c \in 1 .. Len(conns) : Accept(c)
    \/ \E c \in 1 .. Len(conns) : \E k \in 1 .. Len(conns[c].stream) : Recv(c, k)
    \/ \E c \in 1 .. Len(conns) : RecvEof(c)

SpecStream == InitSock /\ [][NextStream]_vars

(***************************************************************************)
(* Graph.from_topology of dijkstra_router.py, flooding_router.py and       *)
(* parte2/lsr/flooding.py (the same code in the three files).  The config  *)
(* of a descriptor is the sequence of its items in the order of the dict:  *)
(* a key, the kind of its value ("list", "dict" or anything "other") and   *)
(* the neighbours it names, with their weights when it is a dict.          *)
(***************************************************************************)
\* the loop of lines 30-38 over the items of cfg that are left: the
\* adjacency built, and whether an item made it raise ValueError
RECURSIVE from_topology(_, _, _)
from_topology(a, dir, cfg) ==
    IF cfg = <<>> THEN [adj |-> a, raised |-> FALSE]
    ELSE LET e == Head(cfg)
             es == [i \in 1 .. Len(e.items) |->
                      <<e.u, e.items[i][1], IF e.kind = "list" THEN 1 ELSE e.items[i][2]>>]
         IN  IF e.kind \notin {"list", "dict"} THEN [adj |-> a, raised |-> TRUE]
             ELSE from_topology(AddEdges(a, dir, es), dir, Tail(cfg))

\* the values a key of the config may have
TopoItems == {<<>>, << <<"B", 1>> >>, << <<"C", 2>> >>, << <<"B", 1>>, <<"D", 2>> >>}
TopoEntries ==
    {[u |-> u, items |-> it, kind |-> k] :
        u \in {"A", "B", "C"}, k \in {"list", "dict"}, it \in TopoItems}
    \cup {[u |-> "A", items |-> <<>>, kind |-> "other"]}
\* the configs of at most two keys
TopoConfigs ==
    {<<>>} \cup {<<e>> : e \in TopoEntries}
    \cup {p \in TopoEntries \X TopoEntries : p[1].u # p[2].u}

InitTopo ==
    /\ directed \in BOOLEAN
    /\ adj = EmptyMap /\ nAdd = 0 /\ source = None
    /\ dist = EmptyMap /\ prev = EmptyMap /\ pq = {} /\ visited = {}
    /\ dpc = "build"
    /\ descriptor \in {[type |-> t, config |-> c] : t \in {"topo", "names"}, c \in TopoConfigs}
    /\ IdleCodec
    /\ IdleFwd
    /\ IdleLsp
    /\ IdleSock
    /\ IdleLspNet
    /\ IdleDisc
    /\ now = 0 /\ call = NoCall /\ ret = None
    /\ db = <<>>
    /\ IdleRouting
    /\ IdleCache

\* g = Graph.from_topology(topo, directed), lines 25-39
FromTopology ==
    /\ dpc = "build" /\ call.op # "from_topology"
    /\ LET r == from_topology(EmptyMap, directed, descriptor.config)
       IN  IF descriptor.type # "topo" \/ r.raised
           THEN dpc' = "error" /\ adj' = adj
           ELSE dpc' = dpc /\ adj' = r.adj
    /\ call' = [op |-> "from_topology"]
    /\ UNCHANGED <<directed, nAdd, source, dist, prev, pq, visited, now, ret, descriptor>>
    /\ UNCHANGED <<lvars, rvars, cvars, fvars, nvars, pvars, evars, wvars, qvars, svars,
                   kvars, xvars>>

NextTopo == FromTopology

SpecTopo == InitTopo /\ [][NextTopo]_vars

(***************************************************************************)
(* The link-state flood over a whole network: every node runs Forwarding   *)
(* over its own Routing and LSDB, node_id originates advertisements, the   *)
(* transport delivers one envelope at a time, entries age out              *)
(***************************************************************************)
\* the advertisement of send_lsp_all's seq-th call at origin o for neighbour n
net_lsp(o, n, seq, links) ==
    env("l1", PROTO_LSR, TYPE_INFO, o, n, MAX_TTL,
        [origin |-> o, seq |-> seq, age |-> LSP_AGE_SEC, links |-> links])

\* the Routing and Forwarding objects of node n
NetState(n) ==
    [db |-> ndb[n], mode |-> mode, table |-> ntable[n], costs |-> ncosts[n],
     seen |-> ncache[n], deadline |-> nspf[n]]

\* the relays counted for the origins that still have an entry in d
relays_kept(log, d) == {r \in log : r.origin \in DbOrigins(d)}

\* one more relay of (origin, seq) counted
relay_counted(log, origin, seq) ==
    IF \E r \in log : r.origin = origin /\ r.seq = seq
    THEN {IF r.origin = origin /\ r.seq = seq THEN [r EXCEPT !.times = @ + 1] ELSE r :
             r \in log}
    ELSE log \cup {[origin |-> origin, seq |-> seq, times |-> 1]}

notK == <<dvars, lvars, rvars, cvars, fvars, evars, wvars, qvars, svars, gvars, xvars,
          ret, ntable, ncache, delivered, dsent, tpc, iter, tHello, tLsp, ncosts>>

\* the networks of the flood, one of each shape as seen from the origin: the
\* ring of the example, a line, a star, and a triangle with a pendant node
\* with the origin in the triangle, at the pendant's foot, and as the pendant
LspTopologies ==
    {TopoOf(es) : es \in {{{"A", "B"}, {"A", "C"}, {"B", "D"}, {"C", "D"}},
                          {{"A", "B"}, {"B", "C"}, {"C", "D"}},
                          {{"A", "B"}, {"A", "C"}, {"A", "D"}},
                          {{"A", "B"}, {"B", "C"}, {"A", "C"}, {"C", "D"}},
                          {{"A", "B"}, {"B", "C"}, {"A", "C"}, {"A", "D"}},
                          {{"A", "B"}, {"B", "C"}, {"B", "D"}, {"C", "D"}}}}

InitLspNet ==
    /\ IdleDijkstra
    /\ IdleCodec
    /\ IdleFwd
    /\ IdleLsp
    /\ IdleSock
    /\ IdleTopo
    /\ IdleDisc
    /\ db = <<>>
    /\ IdleRouting
    /\ seen = <<>> /\ cmax = max_items /\ accepted = EmptyMap /\ capHit = FALSE
    /\ IdleFlood
    /\ IdlePeriodic
    /\ now = StartTime /\ call = NoCall /\ ret = None
    /\ \E tp \in LspTopologies :
          ncosts = [n \in NodeIds |-> [v \in tp[n] |-> TicksPerSec]]
    /\ ndb = [n \in NodeIds |-> <<>>]
    /\ ntable = [n \in NodeIds |-> EmptyMap] /\ ncache = [n \in NodeIds |-> <<>>]
    /\ wire = {} /\ delivered = <<>> /\ dsent = FALSE
    /\ IdleLspNet

\* Forwarding.send_lsp_all(neighbors) at node_id, one call at a time: the
\* next sequence number, one advertisement per neighbour
NetSendLspAll ==
    /\ lspSeq < MaxLspSeq /\ now = StartTime
    /\ lspSeq' = lspSeq + 1
    /\ wire' = wire \cup {to_wire(node_id, n, net_lsp(node_id, n, lspSeq + 1, ncosts[node_id]), 1) :
                             n \in DOMAIN ncosts[node_id]}
    /\ ntx' = ntx + Cardinality(DOMAIN ncosts[node_id])
    /\ call' = [op |-> "send_lsp_all"]
    /\ UNCHANGED <<now, ndb, nspf, nrelay>>
    /\ UNCHANGED notK

\* the transport thread of the receiver hands the envelope w to on_message
\* with the peer the adapter names
NetOnMessage(w) ==
    /\ w \in wire
    /\ LET self == w.rcv
           o == on_message("lsr", NetState(self), now, self, adapter_peer(w.msg), w.msg)
       IN  /\ ndb' = [ndb EXCEPT ![self] = o.st.db]
           /\ nspf' = [nspf EXCEPT ![self] = o.st.deadline]
           /\ wire' = (wire \ {w}) \cup
                        {to_wire(self, o.sent[i].to, o.sent[i].msg, 1) :
                            i \in 1 .. Len(o.sent)}
           /\ ntx' = ntx + Len(o.sent)
           /\ nrelay' = IF o.path = "lsp_relay"
                        THEN [nrelay EXCEPT ![self] =
                                 relay_counted(@, w.msg.payload.origin, w.msg.payload.seq)]
                        ELSE nrelay
           /\ call' = [op |-> "on_message", node |-> self, path |-> o.path]
    /\ UNCHANGED <<now, lspSeq>>
    /\ UNCHANGED notK

\* the lifetime of the first advertisement passes while its envelopes are in
\* flight, and the timer thread of every node, which sweeps once a second,
\* has swept: a sweep that removes something schedules a recomputation
NetExpire ==
    /\ now = StartTime /\ wire # {} /\ lspSeq = 1
    /\ now' = now + (LSP_AGE_SEC + 1) * TicksPerSec
    /\ ndb' = [n \in NodeIds |-> sweep(ndb[n], now').db]
    /\ nspf' = [n \in NodeIds |-> IF sweep(ndb[n], now').ret
                                  THEN schedule_spf(nspf[n], now') ELSE nspf[n]]
    /\ nrelay' = [n \in NodeIds |-> relays_kept(nrelay[n], ndb'[n])]
    /\ call' = [op |-> "sweep"]
    /\ UNCHANGED <<wire, ntx, lspSeq>>
    /\ UNCHANGED notK

NetDeliver == \E w \in wire : NetOnMessage(w)

NextLspNet ==
    \/ NetSendLspAll
    \/ NetDeliver
    \/ NetExpire

\* the transport threads deliver every envelope that is in flight
SpecLspNet == InitLspNet /\ [][NextLspNet]_vars /\ WF_vars(NetDeliver)

(***************************************************************************)
(* DijkstraNode (dijkstra_sockets.py): three nodes on the ports 8000..8002 *)
(* of one host, started in any order; each scans the port range with       *)
(* hellos, sends its table to the neighbours it has recorded, then takes   *)
(* send commands                                                           *)
(***************************************************************************)
DiscNodes == {"A", "B", "C"}
base_port == 8000
scan_range == 5
PortOf == [n \in DiscNodes |-> base_port + StrRank[n] - StrRank["A"]]

\* the topology files the nodes are started with: a line and a triangle
DiscGraphs ==
    {AddEdges(EmptyMap, FALSE, << <<"A", "B", 1>>, <<"B", "C", 1>> >>),
     AddEdges(EmptyMap, FALSE, << <<"A", "B", 1>>, <<"B", "C", 1>>, <<"A", "C", 1>> >>)}

\* the server thread of n accepts connections: from start_server until stop
running(n) == xpc[n] \in {"discover", "exchange", "up"}

\* calculate_routing_table of node n, lines 245-253
routing_table(n) ==
    LET r == run(adj, n) IN build_forwarding_table(r.dist, r.prev, n)

\* the loop of forward_message, lines 229-233: the next hop of the first
\* entry for dest
table_next_hop(tbl, dest) ==
    IF \E i \in 1 .. Len(tbl) : tbl[i].dest = dest
    THEN tbl[CHOOSE i \in 1 .. Len(tbl) :
                /\ tbl[i].dest = dest
                /\ \A j \in 1 .. i - 1 : tbl[j].dest # dest].next_hop
    ELSE None

\* self.neighbors[sender] = (host, port), line 138: a new key goes last
record_neighbor(nbrs, sender) ==
    IF \E i \in 1 .. Len(nbrs) : nbrs[i] = sender THEN nbrs ELSE Append(nbrs, sender)

\* forward_message at node n for a message to dest, lines 224-243, with the
\* handle_data_message of the node that receives it, lines 149-159: the
\* message is handed on while the next hop is a recorded neighbour
RECURSIVE forward_message(_, _, _, _)
forward_message(nbrs, n, dest, fuel) ==
    LET nh == table_next_hop(routing_table(n), dest)
    IN  IF nh = None \/ ~(\E i \in 1 .. Len(nbrs[n]) : nbrs[n][i] = nh) THEN "no_route"
        ELSE IF ~running(nh) THEN "error"
        ELSE IF nh = dest THEN "delivered"
        ELSE IF fuel = 0 THEN "loop"
        ELSE forward_message(nbrs, nh, dest, fuel - 1)

notX == <<lvars, rvars, cvars, fvars, nvars, pvars, evars, wvars, qvars, svars, gvars, kvars,
          now, ret, directed, nAdd, source, dist, prev, pq, visited, dpc>>

InitDisc ==
    /\ IdleCodec
    /\ IdleFwd
    /\ IdleLsp
    /\ IdleSock
    /\ IdleTopo
    /\ IdleLspNet
    /\ IdleRouting
    /\ IdleCache
    /\ IdleFlood
    /\ IdleNet
    /\ now = 0 /\ call = NoCall /\ ret = None
    /\ db = <<>>
    /\ directed = FALSE /\ adj \in DiscGraphs /\ nAdd = 0
    /\ source = None /\ dist = EmptyMap /\ prev = EmptyMap /\ pq = {} /\ visited = {}
    /\ dpc = "build"
    /\ IdleDisc

\* start(), lines 45-54: the table is calculated, the server listens, the
\* scan begins
Start(n) ==
    /\ xpc[n] = "off"
    /\ xpc' = [xpc EXCEPT ![n] = "discover"]
    /\ call' = [op |-> "start", node |-> n]
    /\ UNCHANGED <<adj, xidx, xneighbors, xiter, xinfo, xlog>>
    /\ UNCHANGED notX

\* one round of the loop of discover_neighbors, lines 165-169: send_hello to
\* the next port unless it is the node's own; a node that listens there
\* handles the hello (handle_client, handle_hello_message) and replies, the
\* reply is read and dropped (line 217); a refused connection is swallowed
SendHello(n) ==
    /\ xpc[n] = "discover" /\ xidx[n] < scan_range
    /\ LET target_port == base_port + xidx[n]
           heard == {m \in DiscNodes : PortOf[m] = target_port /\ m # n /\ running(m)}
       IN  /\ xneighbors' = [m \in DiscNodes |->
                                IF m \in heard THEN record_neighbor(xneighbors[m], n)
                                ELSE xneighbors[m]]
           /\ call' = [op |-> "send_hello", node |-> n, port |-> target_port,
                       acked |-> heard]
    /\ xidx' = [xidx EXCEPT ![n] = @ + 1]
    /\ UNCHANGED <<adj, xpc, xiter, xinfo, xlog>>
    /\ UNCHANGED notX

\* exchange_routing_info, lines 194-199: nothing to do without neighbours,
\* else the iteration over self.neighbors begins
ExchangeBegin(n) ==
    /\ xpc[n] = "discover" /\ xidx[n] = scan_range
    /\ IF Len(xneighbors[n]) = 0
       THEN xpc' = [xpc EXCEPT ![n] = "up"] /\ UNCHANGED xiter
       ELSE /\ xpc' = [xpc EXCEPT ![n] = "exchange"]
            /\ xiter' = [xiter EXCEPT ![n] = [size |-> Len(xneighbors[n]), pos |-> 0]]
    /\ call' = [op |-> "exchange_routing_info", node |-> n]
    /\ UNCHANGED <<adj, xidx, xneighbors, xinfo, xlog>>
    /\ UNCHANGED notX

\* one round of the loop of lines 199-204: a dictionary that grew since the
\* iteration began raises RuntimeError out of start(), and main's finally
\* stops the node; else the table goes to the next neighbour, or the loop
\* ends and the node takes commands
ExchangeStep(n) ==
    /\ xpc[n] = "exchange"
    /\ IF Len(xneighbors[n]) # xiter[n].size
       THEN xpc' = [xpc EXCEPT ![n] = "dead"] /\ UNCHANGED <<xiter, xinfo>>
       ELSE IF xiter[n].pos = xiter[n].size
       THEN xpc' = [xpc EXCEPT ![n] = "up"] /\ UNCHANGED <<xiter, xinfo>>
       ELSE /\ xiter' = [xiter EXCEPT ![n].pos = @ + 1]
            /\ xinfo' = IF running(xneighbors[n][xiter[n].pos + 1])
                        THEN xinfo \cup {<<n, xneighbors[n][xiter[n].pos + 1]>>}
                        ELSE xinfo
            /\ UNCHANGED xpc
    /\ call' = [op |-> "exchange_step", node |-> n]
    /\ UNCHANGED <<adj, xidx, xneighbors, xlog>>
    /\ UNCHANGED notX

\* the command "send <dest> <text>": send_user_message, lines 276-288; one
\* command is typed, once every node has finished starting
SendUserMessage(n, dest) ==
    /\ xpc[n] = "up" /\ xlog = <<>>
    /\ \A m \in DiscNodes : xpc[m] \in {"up", "dead"}
    /\ xlog' = <<[src |-> n, dest |-> dest,
                  outcome |-> forward_message(xneighbors, n, dest, Cardinality(DiscNodes))]>>
    /\ call' = [op |-> "send_user_message", dest |-> dest, node |-> n]
    /\ UNCHANGED <<adj, xpc, xidx, xneighbors, xiter, xinfo>>
    /\ UNCHANGED notX

NextDisc ==
    \/ \E n \in DiscNodes : Start(n)
    \/ \E n \in DiscNodes : SendHello(n)
    \/ \E n \in DiscNodes : ExchangeBegin(n)
    \/ \E n \in DiscNodes : ExchangeStep(n)
    \/ \E n \in DiscNodes, dest \in DiscNodes : SendUserMessage(n, dest)

SpecDisc == InitDisc /\ [][NextDisc]_vars

(***************************************************************************)
(* The data plane of a network of parte2 nodes: every node runs            *)
(* Forwarding.on_message over its own Routing and cache, node_id sends one *)
(* data message, the transport delivers one envelope at a time             *)
(***************************************************************************)
\* the link costs of the networks: a second on every link of each topology,
\* and on the ring of the example the uneven measurements under which the
\* tables of A and C name each other for D
LoopCosts ==
    [n \in NodeIds |->
        [v \in NeighborsOf(n) |->
            IF <<n, v>> \in {<<"C", "D">>, <<"D", "B">>} THEN TicksPerSec \div 2
            ELSE RttFloor]]
MeshCosts ==
    {[n \in NodeIds |-> [v \in tp[n] |-> TicksPerSec]] : tp \in LspTopologies}
        \cup {LoopCosts}

\* apply_lsp of the first advertisement of every origin of order, each
\* carrying the costs c of its origin
RECURSIVE apply_all(_, _, _, _)
apply_all(d, t, order, c) ==
    IF order = <<>> THEN d
    ELSE apply_all(apply_lsp(d, t, Head(order), 1, LSP_AGE_SEC, c[Head(order)]).db,
                   t, Tail(order), c)

\* one more "[DATA]" line counted: the lines printed so far, each with the
\* number of times it was printed
RECURSIVE lines_counted(_, _)
lines_counted(log, prn) ==
    IF prn = <<>> THEN log
    ELSE LET l == Head(prn)
             old == {r \in log : r.line = l}
             new == IF old = {} THEN [line |-> l, times |-> 1]
                    ELSE [line |-> l, times |-> (CHOOSE r \in old : TRUE).times + 1]
         IN  lines_counted((log \ old) \cup {new}, Tail(prn))

notMesh == <<dvars, lvars, rvars, cvars, fvars, pvars, evars, wvars, qvars, svars, gvars,
             kvars, xvars, now, ret, ncosts, ndb, ntable>>

\* the nodes have just started, or every node holds the advertisement of
\* every other node and has computed its table
InitMesh ==
    /\ IdleDijkstra
    /\ IdleCodec
    /\ IdleFwd
    /\ IdleLsp
    /\ IdleSock
    /\ IdleTopo
    /\ IdleLspNet
    /\ IdleDisc
    /\ IdleFlood
    /\ IdlePeriodic
    /\ now = 0 /\ call = NoCall /\ ret = None
    /\ db = <<>>
    /\ mode \in Modes /\ table = EmptyMap /\ costs = EmptyMap
    /\ spfDeadline = 0 /\ spfpc = "idle" /\ scheds = <<>>
    /\ seen = <<>> /\ cmax = max_items /\ accepted = EmptyMap /\ capHit = FALSE
    /\ ncosts \in MeshCosts
    /\ \/ ndb = [n \in NodeIds |-> <<>>]
       \/ \E k \in [NodeIds -> 1 .. 2] :
             \* with even costs the order of arrival does not change the tables
             /\ ncosts # LoopCosts => \A n \in NodeIds : k[n] = 1
             /\ ndb = [n \in NodeIds |->
                         apply_all(<<>>, 0, ArrivalOrder(n, k[n]), ncosts)]
    /\ ntable = [n \in NodeIds |->
                    IF ndb[n] = <<>> THEN EmptyMap
                    ELSE spf_table(ndb[n], ncosts[n], n).table]
    /\ ncache = [n \in NodeIds |-> <<>>]
    /\ wire = {} /\ delivered = {} /\ dsent = FALSE

\* the command "send <dst> <text>" at node_id: Forwarding.send_data
MeshSendData(dst) ==
    /\ ~dsent
    /\ dsent' = TRUE
    /\ LET snt == send_data("lsr", NetState(node_id), node_id, dst, uuid4)
       IN  wire' = wire \cup {to_wire(node_id, snt[i].to, snt[i].msg, 1) : i \in 1 .. Len(snt)}
    /\ call' = [op |-> "send_data", dst |-> dst]
    /\ UNCHANGED <<ncache, delivered>>
    /\ UNCHANGED notMesh

\* the transport thread of the receiver hands the envelope w to on_message
\* with the peer the adapter names; a "[DATA]" line is a local delivery
MeshOnMessage(w) ==
    /\ w \in wire
    /\ LET self == w.rcv
           o == on_message("lsr", NetState(self), now, self, adapter_peer(w.msg), w.msg)
       IN  /\ ncache' = [ncache EXCEPT ![self] = o.st.seen]
           /\ delivered' = lines_counted(delivered, o.printed)
           /\ wire' = (wire \ {w}) \cup
                        {to_wire(self, o.sent[i].to, o.sent[i].msg, w.hops + 1) :
                            i \in 1 .. Len(o.sent)}
           /\ call' = [op |-> "on_message", node |-> self, path |-> o.path]
    /\ UNCHANGED dsent
    /\ UNCHANGED notMesh

MeshDeliver == \E w \in wire : MeshOnMessage(w)

\* a unicast destination two hops away on the ring, and the broadcast
MeshDsts == {"D", "*"}

NextMesh ==
    \/ \E dst \in MeshDsts : MeshSendData(dst)
    \/ MeshDeliver

\* the transport threads deliver every envelope that is in flight
SpecMesh == InitMesh /\ [][NextMesh]_vars /\ WF_vars(MeshDeliver)

(***************************************************************************)
(* The debounce under a timer that never stops: the periodic loop of       *)
(* run_node.py keeps invoking maybe_run_spf while the transport thread     *)
(* keeps calling schedule_spf.  The code compares only differences of      *)
(* times, so the clock is kept in a window: when it passes the horizon,    *)
(* every stored time moves back by the same amount.                        *)
(***************************************************************************)
HalfSec == TicksPerSec \div 2
SpfHorizon == MaxHalfSecs * HalfSec

InitSpf == InitRouting /\ mode = PROTO_LSR

\* periodic(), lines 97-112, one turn of the loop with nothing to emit and
\* nothing to sweep: time.sleep, then maybe_run_spf, lines 36-40
SpfPeriodic ==
    /\ spfpc = "idle"
    /\ LET t == now + HalfSec
           back == IF t > SpfHorizon THEN Debounce ELSE 0
       IN  /\ now' = t - back
           /\ IF SpfDue(spfDeadline, t)
              THEN /\ spfDeadline' = 0
                   /\ spfpc' = "compute"
                   /\ scheds' = <<>>
                   /\ call' = [op |-> "maybe_run_spf", served |-> scheds, ran |-> TRUE]
              ELSE /\ spfDeadline' = IF spfDeadline = 0 THEN 0 ELSE spfDeadline - back
                   /\ scheds' = [i \in DOMAIN scheds |-> scheds[i] - back]
                   /\ UNCHANGED spfpc
                   /\ call' = [op |-> "maybe_run_spf", served |-> <<>>, ran |-> FALSE]
    /\ ret' = None
    /\ UNCHANGED <<db, mode, table, costs>>
    /\ UNCHANGED notR

NextSpf ==
    \/ \E c \in RoutingCosts : UpdateNeighborCost("B", c)
    \/ ScheduleSpf
    \/ SpfPeriodic
    \/ SpfCompute

SpecSpf == InitSpf /\ [][NextSpf]_vars /\ WF_vars(SpfPeriodic)

(***************************************************************************)
(* parte2/lsr/lsdb.py: LSDB.sweep on the timer thread, statement by        *)
(* statement, while the transport thread calls LSDB.apply_lsp.  The list   *)
(* rm of sweep is kept in the record of the iteration, its third field.    *)
(***************************************************************************)
\* sweep(), lines 24-25: the clock is read and rm is built
SweepSelect ==
    /\ tpc = "top"
    /\ LET exp == SelectSeq(db, LAMBDA e : Expired(e, now))
       IN  iter' = [size |-> Len(db), pos |-> 1, g |-> [i \in 1 .. Len(exp) |-> exp[i].origin]]
    /\ tpc' = "deleting"
    /\ call' = [op |-> "sweep_select", origin |-> None, had |-> FALSE]
    /\ UNCHANGED <<now, ret, db, table, costs, spfDeadline, tHello, tLsp, lspSeq>>
    /\ UNCHANGED notP

\* sweep(), lines 26-28: one "del self.db[o]" of the loop over rm, or, after
\* the last one, the return of bool(rm)
SweepDelete ==
    /\ tpc = "deleting"
    /\ IF iter.pos <= Len(iter.g)
       THEN /\ db' = SelectSeq(db, LAMBDA e : e.origin # iter.g[iter.pos])
            /\ iter' = [iter EXCEPT !.pos = @ + 1]
            /\ call' = [op |-> "sweep_del", origin |-> iter.g[iter.pos], had |-> TRUE]
            /\ UNCHANGED <<tpc, ret>>
       ELSE /\ ret' = (iter.g # <<>>)
            /\ iter' = NoIter
            /\ tpc' = "top"
            /\ call' = [op |-> "sweep", origin |-> None, had |-> FALSE]
            /\ UNCHANGED db
    /\ UNCHANGED <<now, table, costs, spfDeadline, tHello, tLsp, lspSeq>>
    /\ UNCHANGED notP

NextSweep ==
    \/ \E o \in LsdbOrigins, s \in LsdbSeqs, a \in LsdbAges, l \in LsdbLinks : ApplyLsp(o, s, a, l)
    \/ SweepSelect
    \/ SweepDelete
    \/ TickSec

SpecSweep == InitLSDB /\ [][NextSweep]_vars

(***************************************************************************)
(* The network of FloodingNodes with no datagram lost and every node       *)
(* listening: a datagram in flight is received in the end.                 *)
(***************************************************************************)
FloodDeliver == \E d \in fnet : FloodHandle(d)

SpecFloodFair == InitFlood /\ [][NextFlood]_vars /\ WF_vars(FloodDeliver)

(***************************************************************************)
(* parte2/lsr/routing.py: the controller of node A when its LSDB also      *)
(* receives the advertisement of D, which is no neighbour of A and lists A *)
(* among its links.                                                        *)
(***************************************************************************)
FarLsps ==
    RoutingLsps \cup {[origin |-> "D", links |-> ("A" :> TicksPerSec) @@ ("B" :> TicksPerSec)]}

NextFar ==
    \/ \E c \in RoutingCosts : UpdateNeighborCost("B", c)
    \/ \E l \in FarLsps : RoutingApplyLsp(l)
    \/ ScheduleSpf
    \/ MaybeRunSpf
    \/ SpfCompute
    \/ TickHalf

SpecFar == InitRouting /\ [][NextFar]_vars

(***************************************************************************)
(* parte2/lsr/lsdb.py while the clock goes on: time does not stop.         *)
(***************************************************************************)
SpecLSDBFair == InitLSDB /\ [][NextLSDB]_vars /\ WF_vars(TickSec)

(***************************************************************************)
(* Reference notions for the shortest-path claims: paths of the graph and  *)
(* their weights, defined without the algorithm.                           *)
(***************************************************************************)
\* the walks of at most |nodes| nodes (they include every simple path)
Paths(a) ==
    {p \in UNION {[1 .. k -> DOMAIN a] : k \in 1 .. Cardinality(DOMAIN a)} :
        \A i \in 1 .. (Len(p) - 1) : p[i + 1] \in DOMAIN a[p[i]]}

RECURSIVE PathWeight(_, _)
PathWeight(a, p) ==
    IF Len(p) <= 1 THEN 0
    ELSE a[p[1]][p[2]] + PathWeight(a, Tail(p))

PathsBetween(a, s, t) == {p \in Paths(a) : p[1] = s /\ p[Len(p)] = t}

SetMin(S) == CHOOSE x \in S : \A y \in S : x <= y

\* minimum total weight over the paths from s to t, inf when there is none
ShortestDist(a, s, t) ==
    LET ws == {PathWeight(a, p) : p \in PathsBetween(a, s, t)}
    IN  IF ws = {} THEN inf ELSE SetMin(ws)

NonNegative(a) == \A u \in DOMAIN a : \A v \in DOMAIN a[u] : a[u][v] >= 0

ExampleGraph(dir) == AddEdges(EmptyMap, dir, ExampleEdges)

(***************************************************************************)
(* C1: for every graph with non-negative weights, directed or not, and     *)
(* every source of it, run(source) returns dist with dist[source] = 0,     *)
(* dist[v] = the minimum weight over all paths from source to v, and       *)
(* dist[v] = inf exactly for the nodes without a path from source; on the  *)
(* example topology from A the result is A:0, B:1, C:3, D:4.               *)
(***************************************************************************)
C1_DijkstraCorrect ==
    (dpc = "done" /\ NonNegative(adj)) =>
        /\ dist[source] = 0
        /\ DOMAIN dist = nodes(adj)
        /\ \A v \in nodes(adj) :
              /\ dist[v] = ShortestDist(adj, source, v)
              /\ (dist[v] = inf) <=> (PathsBetween(adj, source, v) = {})
        /\ (adj = ExampleGraph(directed) /\ source = "A") =>
              dist = [v \in NodeIds |-> CASE v = "A" -> 0 [] v = "B" -> 1
                                           [] v = "C" -> 3 [] v = "D" -> 4]

\* run has returned on the example topology from A, through the relaxed path to D
C1_Witness ==
    /\ dpc = "done"
    /\ adj = ExampleGraph(directed)
    /\ source = "A"
    /\ dist["D"] = 4

(***************************************************************************)
(* C2: on every result of run(source) and for every destination d,         *)
(* next_hop(source, d) is source when d = source, None when d is unknown   *)
(* or at infinite distance, and otherwise the walk ends and answers a      *)
(* direct neighbor n of source on a shortest path to d:                    *)
(* weight(source, n) + shortest distance n -> d = dist[d].                 *)
(***************************************************************************)
UnknownNode == "Z"

C2_NextHopCorrect ==
    dpc = "done" =>
        \A d \in NodeIds \cup {UnknownNode} :
            LET r == next_hop(dist, prev, source, d)
            IN  IF d \notin DOMAIN dist \/ dist[d] = inf THEN r = None
                ELSE IF d = source THEN r = source
                ELSE /\ r \in DOMAIN adj[source]
                     /\ adj[source][r] + ShortestDist(adj, r, d) = dist[d]

\* a result whose walk from D takes more than one step back to the source
C2_Witness ==
    /\ dpc = "done"
    /\ source = "A"
    /\ "D" \in DOMAIN prev
    /\ prev["D"] = "C"
    /\ prev["C"] = "B"
    /\ next_hop(dist, prev, "A", "D") = "B"

(***************************************************************************)
(* C10: run on any graph that holds an edge of negative weight, wherever   *)
(* the edge lies, fails and returns no result: a returned result implies   *)
(* that no edge of the graph is negative.                                  *)
(***************************************************************************)
C10_NegativeWeightRejected ==
    dpc = "done" => NonNegative(adj)

(***************************************************************************)
(* C3: apply_lsp(origin, seq, age, links) for an origin that has a stored  *)
(* entry: with seq <= the stored sequence number it returns false and the  *)
(* database is unchanged; with seq strictly greater it returns true and    *)
(* the stored sequence number, links and expiry of that origin become the  *)
(* new ones, every other origin's entry staying as it was.                 *)
(***************************************************************************)
C3_LsdbMonotonic ==
    [][\A o \in DbOrigins(db), s \in LsdbSeqs, a \in LsdbAges, l \in LsdbLinks :
         (call'.op = "apply_lsp" /\ call'.origin = o /\ ApplyLsp(o, s, a, l)) =>
            IF s <= DbGet(db, o).seq
            THEN ret' = FALSE /\ db' = db
            ELSE /\ ret' = TRUE
                 /\ DbGet(db', o) = [origin |-> o, seq |-> s, links |-> l,
                                     expires |-> now + Min(a, LSP_AGE_SEC) * TicksPerSec]
                 /\ DbOrigins(db') = DbOrigins(db)
                 /\ \A q \in DbOrigins(db) \ {o} : DbGet(db', q) = DbGet(db, q)]_vars

\* an advertisement for an origin with a stored entry has just been accepted
C3_Witness ==
    /\ call.op = "apply_lsp"
    /\ call.had
    /\ ret = TRUE
    /\ Len(db) = 2

(***************************************************************************)
(* C6: SPF debounce.  When schedule_spf is called at t1 and again at       *)
(* t2 < t1 + 1.0 with no recomputation in between, maybe_run_spf starts no *)
(* recomputation before t2 + 1.0 (a recomputation starts only when the     *)
(* latest schedule call is at least the debounce old), its first           *)
(* invocation at a time >= t2 + 1.0 starts the one recomputation that      *)
(* serves both calls, and that clears the deadline, so that later          *)
(* invocations do nothing until schedule_spf is called again.              *)
(***************************************************************************)
SpfStarts == spfpc = "idle" /\ spfpc' = "compute"

C6_SpfDebounce ==
    /\ [][SpfStarts =>
            /\ scheds # <<>>
            /\ now >= scheds[Len(scheds)] + Debounce
            /\ spfDeadline' = 0
            /\ scheds' = <<>>]_vars
    /\ []((call.op = "maybe_run_spf") =>
            (scheds = <<>> \/ now < scheds[Len(scheds)] + Debounce))
    /\ []((scheds = <<>>) <=> (spfDeadline = 0))

\* a recomputation has just started that serves two schedule_spf calls made
\* at different times less than the debounce apart
C6_Witness ==
    /\ call.op = "maybe_run_spf"
    /\ call.ran
    /\ Len(call.served) = 2
    /\ call.served[1] < call.served[2]
    /\ call.served[2] < call.served[1] + Debounce
    /\ now >= call.served[2] + Debounce
    /\ spfpc = "compute"
    /\ spfDeadline = 0

(***************************************************************************)
(* C9: Routing.next_hop(destination) answers None in every state whose     *)
(* mode is flooding, whatever the table holds; in the dijkstra and lsr     *)
(* modes it answers the table's entry for the destination when there is    *)
(* one and None otherwise; and it changes neither the table nor the        *)
(* neighbor costs nor the mode.                                            *)
(***************************************************************************)
C9_RouteModeGating ==
    [][(call'.op = "next_hop") =>
         /\ (mode = PROTO_FLOODING) => (ret' = None)
         /\ (mode \in {PROTO_DIJKSTRA, PROTO_LSR}) =>
               (ret' = IF call'.dst \in DOMAIN table THEN table[call'.dst] ELSE None)
         /\ UNCHANGED <<mode, table, costs>>]_vars

\* next_hop has answered None in flooding mode for a destination of the table
C9_Witness ==
    /\ call.op = "next_hop"
    /\ mode = PROTO_FLOODING
    /\ call.dst \in DOMAIN table
    /\ ret = None

(***************************************************************************)
(* C4: FloodingCache.should_forward, for calls within the 60 s lifetime of *)
(* an entry and with the cache never over its cap: the first call with a   *)
(* non-empty (origin, id) returns true and every later call with the same  *)
(* pair returns false; different ids of one origin each return true on     *)
(* first use; a call with an empty origin or id returns false and leaves   *)
(* the cache unchanged.                                                    *)
(***************************************************************************)
C4_DedupIdempotent ==
    [][(call'.op = "should_forward") =>
         LET key == <<call'.origin, call'.mid>>
         IN  IF call'.origin = "" \/ call'.mid = ""
             THEN ret' = FALSE /\ seen' = seen
             ELSE IF key \notin DOMAIN accepted
             THEN ret' = TRUE
             ELSE (now <= accepted[key] + Lifetime /\ ~capHit') => (ret' = FALSE)]_vars

\* a second id of an origin is accepted after the first id of that origin
\* has been accepted once and rejected at the end of its lifetime
C4_Witness ==
    /\ call.op = "should_forward"
    /\ call.origin = "A" /\ call.mid = "m2"
    /\ ret = TRUE
    /\ <<"A", "m1">> \in DOMAIN accepted
    /\ accepted[<<"A", "m1">>] + Lifetime = now
    /\ <<"A", "m1">> \in CacheKeys(seen)
    /\ ~capHit

(***************************************************************************)
(* C5: in both FloodingNode classes, over any topology and delivery order, *)
(* a receiver relays a datagram only when its ttl minus one is positive,   *)
(* and then with the ttl decremented by exactly one; hence a message       *)
(* injected with ttl 1 is never relayed, and one injected with ttl 3       *)
(* travels at most 2 hops beyond the first.                                *)
(***************************************************************************)
C5_FloodTtl ==
    /\ [][(call'.op = "handle") =>
            \A x \in fnet' \ fnet :
                /\ x.msg.ttl = call'.ttl - 1
                /\ x.msg.ttl > 0
                /\ x.hops = call'.hops + 1]_vars
    /\ [](\A d \in fnet :
            /\ d.msg.ttl = d.ttl0 - (d.hops - 1)
            /\ (d.ttl0 = 1 => d.hops = 1)
            /\ (d.ttl0 = 3 => d.hops <= 3))

\* a node with a neighbour to relay to receives, for the first time, a message
\* injected with ttl 3 on its third hop, and does not relay it
C5_Witness ==
    /\ call.op = "handle"
    /\ call.ttl0 = 3 /\ call.hops = 3 /\ call.ttl = 1
    /\ ~call.dup
    /\ call.relayed = 0
    /\ ftopo[call.node] \ {"A"} # {}

C7_Convergence ==
    NodeSettled =>
        /\ {"B", "C", "D"} \subseteq DbOrigins(db)
        /\ "D" \in DOMAIN table
        /\ table["D"] \in {"B", "C"}


\* C11: the forwarding table built from the result of run(source) has exactly
\* one entry per node of the graph; the entries of finite cost come first, in
\* ascending order of destination id, and the unreachable ones follow, again in
\* ascending order; the entry of the source has next hop source and cost 0;
\* an unreachable entry has no next hop.
C11_ForwardingTable ==
    (dpc = "done" /\ call.op = "build_forwarding_table") =>
        /\ Len(ret) = Cardinality(nodes(adj))
        /\ {ret[i].dest : i \in 1..Len(ret)} = nodes(adj)
        /\ \A i \in 1..Len(ret) : \A j \in 1..Len(ret) :
              i < j =>
                /\ ret[i].cost = inf => ret[j].cost = inf
                /\ (ret[i].cost = inf) = (ret[j].cost = inf)
                      => StrRank[ret[i].dest] < StrRank[ret[j].dest]
        /\ \A i \in 1..Len(ret) :
              /\ ret[i].dest = source => ret[i].next_hop = source /\ ret[i].cost = 0
              /\ ret[i].cost = inf => ret[i].next_hop = None
              /\ ret[i].cost = dist[ret[i].dest]

\* a table with an unreachable destination whose id precedes a reachable one's
C11_Witness ==
    /\ dpc = "done" /\ call.op = "build_forwarding_table"
    /\ Len(ret) = 3
    /\ \E i \in 1..Len(ret) : \E j \in 1..Len(ret) :
          /\ ret[i].cost = inf /\ ret[j].cost # inf
          /\ StrRank[ret[i].dest] < StrRank[ret[j].dest]
          /\ ret[j].dest # source

\* C12: for every envelope built by hello, lsp or data, decode(encode(m)) = m
\* in every field, and encode(m) ends with one newline, which is the only
\* newline byte of the line.
C12_CodecRoundTrip ==
    /\ epc = "decoded" => edec = emsg
    /\ epc \in {"encoded", "decoded"} =>
          /\ ebytes[Len(ebytes)] = LF
          /\ \A i \in 1..(Len(ebytes) - 1) : ebytes[i] # LF

\* a data envelope whose text holds a newline and a quote has been decoded
C12_Witness ==
    /\ epc = "decoded"
    /\ emsg.kv[3].v.s = <<TYPE_DATA>>
    /\ emsg.kv[8].v.kv[2].v.s = <<LF, QUOTE>>

\* C13: LSDB.sweep() removes exactly the entries whose expiry is earlier than
\* the current time, leaves every other entry as it was, and returns true
\* exactly when it removed at least one entry; an entry accepted with age 0
\* expires at its insertion time, so the first sweep at any later time
\* removes it.
C13_SweepExact ==
    [][/\ call'.op = "sweep" =>
            /\ db' = SelectSeq(db, LAMBDA e : e.expires >= now)
            /\ ret' = (\E i \in 1..Len(db) : db[i].expires < now)
       /\ (call'.op = "apply_lsp" /\ ret' = TRUE) =>
            LET e == DbGet(db', call'.origin)
            IN  /\ \E a \in LsdbAges : e.expires = now + Min(a, LSP_AGE_SEC) * TicksPerSec
                /\ e.expires = now =>
                      \A t \in (now + 1)..(MaxSecs + 1) * TicksPerSec :
                          /\ call'.origin \notin DbOrigins(sweep(db', t).db)
                          /\ sweep(db', t).ret = TRUE
      ]_vars

\* a sweep has removed an expired entry and kept a live one
C13_Witness ==
    /\ call.op = "sweep" /\ ret = TRUE /\ db # <<>>
    /\ now > 0

\* C14: Forwarding.on_message, in both classes, with any message (hello,
\* info or data, data addressed to the local node included) whose ttl minus
\* one is not positive sends nothing, delivers nothing, and leaves the
\* neighbor costs, the LSDB, the flooding cache and the SPF deadline as
\* they were.
C14_TtlDropNoEffect ==
    [][(call'.op = "on_message" /\ call'.msg.ttl - 1 <= 0) =>
            /\ sent' = <<>> /\ printed' = <<>>
            /\ UNCHANGED <<costs, db, seen, spfDeadline, table, mode>>
      ]_vars

\* a data message for the local node has arrived with ttl 1
C14_Witness ==
    /\ wpc = "done" /\ call.op = "on_message"
    /\ call.msg.ttl = 1 /\ call.msg.type = TYPE_DATA /\ call.msg.to = node_id
    /\ call.path = "drop"

\* C15: in a node wired as run_node.py wires it, a relay of a message that
\* came over the link of neighbour X (an accepted advertisement, or a data
\* message flooded for lack of a route) goes to every neighbour except X and
\* never back to X, also when X relayed the message and is not its "from".
C15_NoRelayBack ==
    [][(call'.op = "on_message" /\ call'.path \in {"lsp_relay", "flood"}) =>
            {sent'[i].to : i \in 1..Len(sent')} = (DOMAIN costs) \ {call'.via}
      ]_vars

\* C16: on_message of parte2/lsr/forwarding.py for a data message with ttl
\* left: when the normalised destination is the local id and the raw
\* destination is not "*", the message is delivered locally exactly once and
\* processing stops, nothing is sent and the cache is untouched; when the raw
\* destination is "*", the message is delivered locally and then takes the
\* flooding path, never a next-hop lookup.
C16_LocalDelivery ==
    [][(/\ call'.op = "on_message" /\ wvariant = "lsr"
        /\ call'.msg.type = TYPE_DATA /\ call'.msg.ttl - 1 > 0) =>
            LET raw == call'.msg.to
            IN  /\ (raw # "*" /\ dst_bare(raw) = node_id) =>
                      /\ printed' = <<data_line(node_id, call'.msg)>>
                      /\ sent' = <<>>
                      /\ seen' = seen
                      /\ call'.path = "local"
                /\ raw = "*" =>
                      /\ printed' = <<data_line(node_id, call'.msg)>>
                      /\ call'.path \in {"flood", "dup"}
                      /\ ~call'.lookup
      ]_vars

\* a broadcast has been delivered locally and flooded
C16_Witness ==
    /\ wpc = "done" /\ wvariant = "lsr" /\ call.op = "on_message"
    /\ call.msg.type = TYPE_DATA /\ call.msg.to = "*"
    /\ call.path = "flood" /\ Len(printed) = 1 /\ sent # <<>>
    /\ table # EmptyMap /\ mode = PROTO_LSR

\* C17: send_data(dst, text), in both classes: when a next hop exists for
\* dst and the mode is not flooding, exactly one data envelope is sent, to
\* that next hop, tagged with the current mode; otherwise exactly one data
\* envelope tagged flooding is sent to each key of the neighbor-cost table
\* and to nobody else.
C17_SendData ==
    [][call'.op = "send_data" =>
            LET dst == call'.dst
                routed == mode # PROTO_FLOODING /\ dst \in DOMAIN table
                tos == {sent'[i].to : i \in 1..Len(sent')}
            IN  /\ \A i \in 1..Len(sent') :
                      /\ sent'[i].msg.type = TYPE_DATA
                      /\ sent'[i].msg.to = dst /\ sent'[i].msg.from = node_id
                /\ IF routed
                   THEN /\ Len(sent') = 1
                        /\ sent'[1].to = table[dst]
                        /\ sent'[1].msg.proto = mode
                   ELSE /\ Len(sent') = Cardinality(DOMAIN costs)
                        /\ tos = DOMAIN costs
                        /\ \A i \in 1..Len(sent') : sent'[i].msg.proto = PROTO_FLOODING
      ]_vars

\* send_data without a route, in lsr mode: one flooded envelope per neighbour
C17_Witness ==
    /\ wpc = "done" /\ call.op = "send_data"
    /\ mode = PROTO_LSR /\ table = EmptyMap
    /\ Len(sent) = 2

\* C18: every invocation of send_lsp_all stamps a sequence number strictly
\* greater than that of every invocation started before it, and all the
\* envelopes of one invocation carry the same number, also when the periodic
\* thread and the command thread call it concurrently.
C18_LspSeqIncreasing ==
    \A i \in 1..Len(lsent) : \A j \in 1..Len(lsent) :
        /\ lsent[i].inv = lsent[j].inv => lsent[i].seq = lsent[j].seq
        /\ lsent[i].inv < lsent[j].inv => lsent[i].seq < lsent[j].seq

\* C19: the flooding cache is bounded: whenever a should_forward call has
\* returned, the cache holds at most max_items entries, and no entry whose
\* expiry had already passed at the start of that call remains.
C19_CacheBounded ==
    call.op = "should_forward" =>
        /\ Len(seen) <= cmax
        /\ \A i \in 1..Len(seen) : ~(seen[i].exp < now)

\* C20: after every recomputation by maybe_run_spf, whatever the LSDB holds
\* (nothing included), the table has an entry for every neighbour of the
\* neighbor-cost table and none for the local id, and it is computed on a
\* graph in which every local link carries the locally measured cost, not an
\* advertised one: each entry is a neighbour on a shortest path of that graph.
C20_TableAfterSpf ==
    [][(call'.op = "spf" /\ spfpc' = "idle") =>
            LET g == AddLinks(to_graph(db), node_id, costs)
            IN  /\ DOMAIN costs \subseteq DOMAIN table'
                /\ node_id \notin DOMAIN table'
                /\ \A n \in DOMAIN costs :
                      g[node_id][n] = costs[n] /\ g[n][node_id] = costs[n]
                /\ \A dst \in DOMAIN table' :
                      /\ table'[dst] \in DOMAIN g[node_id]
                      /\ g[node_id][table'[dst]] + ShortestDist(g, table'[dst], dst)
                            = ShortestDist(g, node_id, dst)
      ]_vars

\* a recomputation with B's advertisement of its link to A at another cost
\* than the one A measured
C20_Witness ==
    /\ call.op = "spf" /\ spfpc = "idle"
    /\ "B" \in DbOrigins(db)
    /\ DbGet(db, "B").links["A"] # costs["B"]
    /\ DOMAIN table = {"B", "C", "D"}

\* C21: in the FloodingNode of flooding_router.py, a node that relays a
\* received datagram sends the copy to every neighbour except the node whose
\* datagram delivered it, and never back to that node, also when that node
\* relayed the message and is not its "from".
C21_SimpleExcludesPredecessor ==
    [][(/\ fvariant = "simple" /\ call'.op = "handle"
        /\ ~call'.dup /\ call'.ttl - 1 > 0) =>
            \A d \in fnet \ fnet' :
                {x.rcv : x \in fnet' \ fnet} = ftopo[d.rcv] \ {d.snd}
      ]_vars

\* C22: in the FloodingNode of parte2/lsr/flooding.py, a node that relays a
\* message with one or more via records appends its own record and sends the
\* copy to every neighbour except the one named in the last via record of the
\* message received.
C22_CachedExcludesLastVia ==
    [][(/\ fvariant = "cached" /\ call'.op = "handle"
        /\ ~call'.dup /\ call'.ttl - 1 > 0) =>
            \A d \in fnet \ fnet' :
                /\ Len(d.msg.headers) >= 1
                /\ \A x \in fnet' \ fnet :
                      x.msg.headers = Append(d.msg.headers, d.rcv)
                /\ {x.rcv : x \in fnet' \ fnet} =
                      ftopo[d.rcv] \ {d.msg.headers[Len(d.msg.headers)]}
      ]_vars

\* C23: SocketAdapter.send: when the write to the cached outbound
\* connection fails, that connection is unregistered, closed and removed from
\* the cache and send returns normally; a send that finds no cached
\* connection for a configured peer goes on to connect; a send to a peer
\* with no endpoint and no cached connection changes nothing.
C23_SendFailureTeardown ==
    [][/\ (call'.op = "sendall" /\ ~call'.ok) =>
            /\ ~conns'[call'.conn].sopen /\ ~conns'[call'.conn].sreg
            /\ out_socks'[call'.peer] = 0
            /\ spc'[call'.thread] = "idle"
       /\ (call'.op = "send" /\ out_socks[call'.peer] = 0 /\ call'.peer \in peers) =>
            spc'[call'.thread] = "connect"
       /\ (call'.op \in {"send", "get"} /\ call'.peer \notin peers
                /\ out_socks[call'.peer] = 0) =>
            /\ UNCHANGED <<out_socks, conns, written>>
            /\ spc'[call'.thread] = (IF call'.op = "send" THEN "get" ELSE "idle")
      ]_vars

\* a write on the first connection failed, a later send made a second
\* connection and wrote its message on it
C23_Witness ==
    /\ call.op = "sendall" /\ call.ok /\ call.conn = 2
    /\ ~conns[1].sopen /\ ~conns[1].sreg
    /\ out_socks["B"] = 2
    /\ written = <<[msg |-> written[1].msg, conn |-> 2]>>

\* the well-formed messages among the lines of a buffer
RECURSIVE good_lines(_, _)
good_lines(lines, i) ==
    IF i > Len(lines) THEN <<>>
    ELSE (IF strip(lines[i]) # <<>> /\ decode(Append(lines[i], LF)) # JSONDecodeError
          THEN <<decode(Append(lines[i], LF))>> ELSE <<>>)
         \o good_lines(lines, i + 1)

\* C24: a received line that is not valid JSON is discarded and the stream
\* adapter goes on: after a read that returned whole lines, the connection
\* is still in service and every well-formed message of the buffer, those
\* after a malformed line included, has been handed to on_message.
C24_MalformedDiscarded ==
    [][(/\ call'.op = "recv" /\ call'.aligned
        /\ call'.buf[Len(call'.buf)] = LF) =>
            /\ conns'[call'.conn].rstate = "open"
            /\ [i \in 1 .. (Len(dispatched') - Len(dispatched)) |->
                    dispatched'[Len(dispatched) + i].msg]
                 = good_lines(split(call'.buf, <<>>), 1)
      ]_vars

\* the messages of a log (written or dispatched) that belong to connection c
MsgsOn(log, c) ==
    LET on == SelectSeq(log, LAMBDA e : e.conn = c)
    IN  [i \in 1 .. Len(on) |-> on[i].msg]

IsPrefix(a, b) == Len(a) <= Len(b) /\ a = SubSeq(b, 1, Len(a))

\* C25: over an established connection of the stream adapter whose writes
\* all succeeded, the messages handed to on_message at the receiver are at
\* every moment the first of those written, in order and once each, the
\* receiver keeps the connection, and once every byte has been read all of
\* them have been dispatched, however the bytes were divided into reads.
C25_StreamDelivery ==
    \A c \in 1 .. Len(conns) :
        (conns[c].owner = "A" /\ conns[c].sopen) =>
            /\ conns[c].rstate # "closed"
            /\ IsPrefix(MsgsOn(dispatched, c), MsgsOn(written, c))
            /\ conns[c].stream = <<>> => MsgsOn(dispatched, c) = MsgsOn(written, c)

\* the open outbound connections of A to peer p
OpenOut(p) ==
    {c \in 1 .. Len(conns) :
        conns[c].owner = "A" /\ conns[c].peer = p /\ conns[c].sopen}

\* C29: at any time the stream adapter has at most one open outbound
\* connection per destination peer, and the one it has is the cached one,
\* whatever the interleaving of the send calls of the command thread, the
\* periodic thread and the I/O thread.
C29_OneOutboundPerPeer ==
    \A p \in SockTargets :
        /\ Cardinality(OpenOut(p)) <= 1
        /\ \A c \in OpenOut(p) : out_socks[p] = c

\* the identifiers a config names: its keys and the neighbours of its keys
Named(cfg) ==
    {cfg[i].u : i \in 1 .. Len(cfg)}
    \cup UNION {{cfg[i].items[j][1] : j \in 1 .. Len(cfg[i].items)} : i \in 1 .. Len(cfg)}

\* C26: after Graph.from_topology on a valid descriptor, nodes() is exactly
\* the set of the identifiers that are a key of the config or a neighbour of
\* a key, a key with no neighbours included, and every neighbour of every
\* node is a node.
C26_NodesOfTopology ==
    (call.op = "from_topology" /\ dpc # "error") =>
        /\ nodes(adj) = Named(descriptor.config)
        /\ \A u \in nodes(adj) : DOMAIN neighbors(adj, u) \subseteq nodes(adj)

\* C27: on_message for a hello with ttl left: the neighbor-cost table
\* changes only when the payload has a numeric t0 and the sender is already
\* a key of the table, and then only the sender's cost, which becomes
\* max(0.1, now - t0); a recomputation is scheduled exactly when the stored
\* cost changed; otherwise table and deadline are unchanged; a hello never
\* adds a key, sends nothing and leaves the LSDB and the routing table alone.
C27_HelloFrame ==
    [][(/\ call'.op = "on_message" /\ call'.msg.type = TYPE_HELLO
        /\ call'.msg.ttl - 1 > 0) =>
            LET peer == adapter_peer(call'.msg)
                t0 == call'.msg.payload.t0
                ok == t0.t \in {"int", "float"} /\ peer \in DOMAIN costs
            IN  /\ DOMAIN costs' = DOMAIN costs
                /\ sent' = <<>> /\ printed' = <<>>
                /\ db' = db /\ table' = table /\ seen' = seen /\ mode' = mode
                /\ ok => /\ costs' = [costs EXCEPT ![peer] = Max(RttFloor, now - t0.n)]
                         /\ IF costs'[peer] # costs[peer]
                            THEN spfDeadline' = now + Debounce
                            ELSE spfDeadline' = spfDeadline
                /\ ~ok => costs' = costs /\ spfDeadline' = spfDeadline
      ]_vars

\* a hello of neighbour B measured a new cost and scheduled a recomputation
C27_Witness ==
    /\ wpc = "done" /\ call.op = "on_message" /\ call.msg.type = TYPE_HELLO
    /\ call.msg.from = "B" /\ call.msg.ttl = MAX_TTL
    /\ costs["B"] = RttFloor /\ costs["C"] = TicksPerSec
    /\ spfDeadline = now + Debounce

(***************************************************************************)
(* C28: an advertisement that apply_lsp rejects, its sequence number not   *)
(* being strictly greater than the stored one, causes no send and no       *)
(* scheduling of a recomputation; for a given origin and sequence number a *)
(* node re-floods at most once while the origin's entry stays in its       *)
(* database; and the flood of an advertisement stops: before any entry has *)
(* expired every node has sent it at most once on each of its links, and   *)
(* eventually no envelope is in flight, on every topology, cyclic or not.  *)
(***************************************************************************)
StaleAt(w) ==
    /\ w.msg.ttl > 1
    /\ w.msg.payload.origin \in DbOrigins(ndb[w.rcv])
    /\ w.msg.payload.seq <= DbGet(ndb[w.rcv], w.msg.payload.origin).seq
C28_FloodStops ==
    /\ [][\A w \in wire : (w \notin wire' /\ StaleAt(w)) =>
             /\ wire' = wire \ {w}
             /\ ntx' = ntx /\ nspf' = nspf /\ ndb' = ndb /\ nrelay' = nrelay]_vars
    /\ [](\A n \in NodeIds : \A r \in nrelay[n] : r.times <= 1)
    /\ [](now = StartTime =>
             ntx <= lspSeq * Cardinality({p \in NodeIds \X NodeIds : p[2] \in DOMAIN ncosts[p[1]]}))
    /\ <>[](wire = {})

\* on a ring, where every node has two links, the flood has gone round: a
\* node has just rejected a copy, every other node has re-flooded, and no
\* envelope is left in flight
C28_Witness ==
    /\ \A n \in NodeIds : Cardinality(DOMAIN ncosts[n]) = 2
    /\ call.op = "on_message" /\ call.path = "lsp_old"
    /\ \A n \in NodeIds \ {node_id} : nrelay[n] # {}
    /\ wire = {}

(***************************************************************************)
(* C30: when a node X sends a hello during its discovery to a scanned port *)
(* on which a node Y is running and Y acknowledges it, X has Y in its      *)
(* neighbor table, the table its exchange and its forwarding go by; and    *)
(* between two nodes that have both finished starting, discovery is        *)
(* symmetric: each has the other in its table or neither has.              *)
(***************************************************************************)
Knows(nbrs, x, y) == \E i \in 1 .. Len(nbrs[x]) : nbrs[x][i] = y
C30_DiscoverySymmetric ==
    /\ [][call'.op = "send_hello" =>
             \A y \in call'.acked : Knows(xneighbors', call'.node, y)]_vars
    /\ [](\A x \in DiscNodes, y \in DiscNodes :
             (x # y /\ xpc[x] = "up" /\ xpc[y] = "up") =>
                 (Knows(xneighbors, x, y) <=> Knows(xneighbors, y, x)))

(***************************************************************************)
(* C31: in the link-state Forwarding dispatcher every data message,        *)
(* identified by (from, id), is delivered locally at most once at any      *)
(* node, in every mode and on every topology, unicast or broadcast.        *)
(***************************************************************************)
C31_DeliveredOncePerNode == \A r \in delivered : r.times <= 1

(***************************************************************************)
(* C32: all the copies one send_data call emits on the flooding path carry *)
(* the same message id, so that the caches of the other nodes hold one key *)
(* for them and a node reached by two of the copies relays one of them.    *)
(***************************************************************************)
C32_CopiesShareId ==
    /\ [][call'.op = "send_data" =>
             \A x \in wire', y \in wire' : x.msg.id = y.msg.id]_vars
    /\ [](\A n \in NodeIds : Cardinality(CacheKeys(ncache[n])) <= 1)

(***************************************************************************)
(* C39: every transmission of a forwarding node carries a ttl one below    *)
(* the ttl the node received, on the next-hop path and on the flooding     *)
(* path; a data message originated with ttl 16 is never transmitted over   *)
(* more than 16 links in a chain; and forwarding stops, also when the      *)
(* tables of two nodes name each other for the destination.                *)
(***************************************************************************)
C39_TtlBoundsForwarding ==
    /\ [][\A w \in wire : w \notin wire' =>
             \A x \in wire' \ wire :
                 x.msg.ttl = w.msg.ttl - 1 /\ x.hops = w.hops + 1 /\ x.snd = w.rcv]_vars
    /\ [](\A x \in wire :
             x.hops <= MAX_TTL /\ x.msg.ttl >= 1 /\ x.msg.ttl = MAX_TTL + 1 - x.hops)
    /\ <>[](wire = {})

\* the tables of A and C name each other for D, and the message sent to D
\* has gone to and fro until its ttl ran out: nothing is in flight, nothing
\* was delivered
C39_Witness ==
    /\ "D" \in DOMAIN ntable["A"] /\ ntable["A"]["D"] = "C"
    /\ "D" \in DOMAIN ntable["C"] /\ ntable["C"]["D"] = "A"
    /\ mode = PROTO_LSR /\ dsent /\ wire = {} /\ delivered = {}
    /\ call.op = "on_message" /\ call.path = "drop"

(***************************************************************************)
(* C33: whenever schedule_spf has been called and the periodic timer keeps *)
(* invoking maybe_run_spf, a recomputation eventually starts, also when    *)
(* further schedule_spf calls keep arriving less than the debounce apart.  *)
(***************************************************************************)
C33_SpfEventuallyRuns == (spfDeadline # 0) ~> (spfpc = "compute")

(***************************************************************************)
(* C34: a schedule_spf call the transport thread makes while the timer     *)
(* thread is inside a recomputation is not lost: the deadline it sets      *)
(* stays set until the recomputation finishes, the timer thread is there   *)
(* to serve it, and once the node has settled the table is the one         *)
(* computed from the database and the costs as that call left them.        *)
(***************************************************************************)
C34_ScheduleDuringSpfServed ==
    /\ [][(tpc = "graph" /\ spfDeadline' # spfDeadline) =>
             /\ call'.op \in {"on_hello", "on_lsp"}
             /\ spfDeadline' = now + Debounce]_vars
    /\ [](spfDeadline # 0 => tpc # "dead")
    /\ [](NodeSettled => table = spf_table(db, costs, node_id).table)

(***************************************************************************)
(* C35: under every interleaving of apply_lsp with sweep, sweep removes    *)
(* only entries whose expiry has passed: an entry apply_lsp has just       *)
(* replaced with a fresh advertisement is not deleted by a sweep that had  *)
(* selected the old entry.                                                 *)
(***************************************************************************)
C35_SweepRemovesOnlyExpired ==
    [][call'.op = "sweep_del" =>
          \A i \in 1 .. Len(db) :
              db[i].origin \notin DbOrigins(db') => Expired(db[i], now)]_vars

(***************************************************************************)
(* C36: across any sequence of apply_lsp and sweep calls on one LSDB, the  *)
(* sequence numbers accepted for an origin never decrease: once the entry  *)
(* of origin o has held sequence number s, every entry o has later holds a *)
(* sequence number of at least s, also after a sweep removed the entry.    *)
(***************************************************************************)
C36_SeqNeverDecreases ==
    \A o \in LsdbOrigins, s \in LsdbSeqs :
        []((o \in DbOrigins(db) /\ DbGet(db, o).seq = s) =>
              [](o \in DbOrigins(db) => DbGet(db, o).seq >= s))

\* the nodes at most k links away from s
RECURSIVE Within(_, _, _)
Within(topo, s, k) ==
    IF k = 0 THEN {s}
    ELSE LET W == Within(topo, s, k - 1) IN W \cup UNION {topo[u] : u \in W}

(***************************************************************************)
(* C37: in both UDP flooding nodes, nothing lost, a message injected with  *)
(* ttl T is eventually received (seen for the first time and, when it is   *)
(* addressed to the node, printed) by every node within T hops of the      *)
(* sender, under every order of delivery.                                  *)
(***************************************************************************)
C37_FloodReachesAll ==
    \A v \in NodeIds, s \in FloodSenders, to \in FloodDsts, T \in 0 .. MaxTTL, n \in 1 .. MaxSends :
        (/\ \E d \in fnet : d.n = n /\ d.hops = 1 /\ d.snd = s /\ d.ttl0 = T /\ d.msg.to = to
         /\ v \in Within(ftopo, s, T) \ {s})
        ~> (/\ msg_key(fvariant, send_msg(fvariant, s, to, T, n)) \in fseen[v]
            /\ to = v => <<v, n>> \in fout)

(***************************************************************************)
(* C38: in the stream adapter every socket held in the outbound cache is   *)
(* open and registered with the selector, in every reachable state, also   *)
(* after the receive loop has closed an outbound socket whose peer closed  *)
(* it.                                                                     *)
(***************************************************************************)
C38_CacheHoldsOpenSockets ==
    \A p \in SockTargets :
        out_socks[p] # 0 =>
            conns[out_socks[p]].sopen /\ conns[out_socks[p]].sreg

(***************************************************************************)
(* C40: after every recomputation every next hop of the routing table is   *)
(* a key of the local neighbor-cost table, whatever advertisements the     *)
(* LSDB holds, the advertisement of an origin that is no neighbour and     *)
(* lists the local node among its links included.                          *)
(***************************************************************************)
C40_NextHopsAreNeighbors ==
    [][(call'.op = "spf" /\ spfpc' = "idle") =>
          \A dst \in DOMAIN table' : table'[dst] \in DOMAIN costs]_vars

====
